---- MODULE Spec2Model ----
(***************************************************************************)
(* Model of the posting scheduler of pizzini (scheduler.py).               *)
(*                                                                         *)
(* PostScheduler keeps a list of job descriptors (scheduled_jobs), a set   *)
(* of recently posted entry IDs (posted_content_ids), a running flag and a *)
(* worker thread.  The live triggers are kept by the `schedule` library in *)
(* its process-wide registry (schedule.jobs); each trigger holds a tag and *)
(* the job function (a closure) it calls.  Wall-clock time is abstracted:  *)
(* a trigger "comes due" at some moment, and a worker tick runs the        *)
(* triggers that are due.                                                  *)
(*                                                                         *)
(* Text values: a time-of-day string "HH:MM" is the tuple <<h, m>> of its  *)
(* two numeric parts; a part that is not a number is -1.  Python values    *)
(* whose type JSON does not keep (datetime, tuple) carry a `py` field.     *)
(***************************************************************************)
EXTENDS Integers, Sequences, FiniteSets, TLC

\* ---------------------------------------------------------------- bounds
MaxEntry == 2
MaxJobs == 1
MaxThreads == 2
MaxTimers == 2
MaxDay == 2
MaxPieces == 3
MaxCalls == 2
MaxPosts == 4
MaxDescriptors == 3

\* ---------------------------------------------------------------- inputs
EntryIds == 1..MaxEntry

\* the entry-ID lists passed to schedule_recurring_posts / schedule_random_posts
EntryLists == { [i \in 1..k |-> i] : k \in 0..MaxEntry }

\* the list of every entry ID
AllEntries == [i \in 1..MaxEntry |-> i]

NineOClock == <<9, 0>>
BadClock == <<-1, 0>>

\* start_time arguments: "09:00" and a string that is no time
StartTimes == {NineOClock, BadClock}

\* post_time arguments: a datetime, and (wrongly) a plain string
ValidPostTime == [py |-> "datetime", hm |-> NineOClock]

PostTimes == { ValidPostTime, [py |-> "str", hm |-> NineOClock] }

\* interval_days arguments: daily, weekly and a custom interval
Intervals == {1, 7, 2}

\* time_windows arguments: one valid window, one window that is no time,
\* and a valid window followed by one that is no time
Window(a, b) == [py |-> "tuple", start |-> a, end |-> b]

WindowLists ==
    { << Window(NineOClock, NineOClock) >>,
      << Window(BadClock, NineOClock) >>,
      << Window(NineOClock, NineOClock), Window(BadClock, NineOClock) >> }

PostsPerWeek == 0..MaxDay

DefaultPlatforms == <<"twitter", "instagram">>

\* ---------------------------------------------------------------- state
VARIABLES
    scheduled_jobs,       \* self.scheduled_jobs: sequence of job descriptors
    running,              \* self.running
    post_callback,        \* self.post_callback is set (TRUE) or None (FALSE)
    posted_content_ids,   \* self.posted_content_ids
    jobs,                 \* the Job objects of the schedule library, live or cancelled
    fns,                  \* the job functions (closures) with their captured variables
    threads,              \* the worker threads start_scheduler has created
    timers,               \* pending threading.Timer removals: bag of entry IDs
    file,                 \* the snapshot file of save_schedule_config
    last,                 \* the last public operation and what it returned
    failed,               \* a callback has returned False or raised (for the properties only)
    trace,                \* history of each job function (for the properties only)
    used_hashtags,        \* ContentFormatter.used_hashtags
    call,                 \* the last format_for_platform call: its arguments and what it returned
    placed,               \* hashtags appended to the text of earlier calls (for the properties only)
    sanitized,            \* a content string and the passes of the sanitization step over it
    suggestions,          \* the last suggest_posting_schedule call and what it returned
    threaded              \* the last create_thread call and the list it returned

\* the state of the PostScheduler and of the schedule library
svars == << scheduled_jobs, running, post_callback, posted_content_ids, jobs, fns,
            threads, timers, file, last, failed, trace >>

\* the state of the ContentFormatter and the values of the pure functions
fvars == << used_hashtags, call, placed, sanitized, suggestions, threaded >>

vars == << svars, fvars >>

\* ------------------------------------------------------- python helpers
Range(s) == { s[i] : i \in DOMAIN s }

Min(a, b) == IF a < b THEN a ELSE b

\* [x for x in s if x not in excluded]
RECURSIVE Without(_, _)
Without(s, excluded) ==
    IF s = <<>> THEN <<>>
    ELSE IF Head(s) \in excluded THEN Without(Tail(s), excluded)
         ELSE <<Head(s)>> \o Without(Tail(s), excluded)

\* [job for job in s if job.get('job_tag') != tag]
RECURSIVE WithoutTag(_, _)
WithoutTag(s, tag) ==
    IF s = <<>> THEN <<>>
    ELSE IF Head(s).job_tag = tag THEN WithoutTag(Tail(s), tag)
         ELSE <<Head(s)>> \o WithoutTag(Tail(s), tag)

\* schedule: Job.at(time_str) accepts HH:MM with hours 0..23 and minutes 0..59,
\* and raises ScheduleValueError otherwise
ValidAt(t) == /\ Len(t) = 2
              /\ t[1] \in 0..23
              /\ t[2] \in 0..59

\* int(part) of a split time string raises ValueError on a part that is no number
ParsesAsInts(t) == /\ Len(t) = 2
                   /\ t[1] >= 0
                   /\ t[2] >= 0

\* post_time.strftime("%H:%M"): only a datetime has the method
HasStrftime(post_time) == post_time.py = "datetime"

Strftime(post_time) == post_time.hm


\* a tag string: the fixed text and, where the text is formatted with a number,
\* that number (0 otherwise); f"single_post_{entry_id}" is Tag("single_post_", entry_id)
Tag(text, n) == [text |-> text, n |-> n]

\* a Job of the schedule library: schedule.every()...at(t).do(fn).tag(tag)
NewJob(every, at, fn, tag) ==
    [every |-> every, at |-> at, fn |-> fn, tag |-> tag, due |-> FALSE, live |-> TRUE]

\* schedule.jobs: the triggers in the registry
LiveJobs == { i \in DOMAIN jobs : jobs[i].live }

\* schedule.clear(tag): cancels the jobs carrying the tag
ScheduleClearTag(tag) ==
    [i \in DOMAIN jobs |-> IF jobs[i].tag = tag THEN [jobs[i] EXCEPT !.live = FALSE] ELSE jobs[i]]

ScheduleClear_Nothing == jobs

\* schedule.clear(): cancels every job
ScheduleClear == [i \in DOMAIN jobs |-> [jobs[i] EXCEPT !.live = FALSE]]

\* a job function as defined by a schedule_* call, with the variables it captures
NewFn(kind, entry_ids, interval_days) ==
    [kind |-> kind, entry_ids |-> entry_ids, interval_days |-> interval_days, entry_index |-> 0]

\* history of a job function: the tag recorded in the descriptor its schedule_*
\* call appended (NoTag when the call appended none); whether a callback it
\* invoked has succeeded; whether it has run undisturbed since it was defined
\* over an empty posted-set (one run at a time, every callback succeeding,
\* nothing else changing the posted-set) and, while that is so, the entry IDs
\* of its first len(entry_ids) callback invocations
NoTag == Tag("", 0)

NewTrace(job_tag) ==
    [job_tag |-> job_tag, calls |-> <<>>, succeeded |-> FALSE,
     clean |-> posted_content_ids = {}]

Disturbed(t) == [t EXCEPT !.clean = FALSE, !.calls = <<>>]

Returned(op, value) == [op |-> op, ret |-> value]

\* the model follows at most MaxJobs job functions and MaxJobs descriptors
Room == Len(fns) < MaxJobs /\ Len(scheduled_jobs) < MaxJobs

\* --------------------------------------------------------------- __init__
\* the two files that define class ContentFormatter
Modules == {"src/content_formatter.py", "src/functions/content_formatter.py"}

\* no format_for_platform call has been made yet
NoCall ==
    [op |-> "__init__", module |-> "src/content_formatter.py", n |-> 0,
     title |-> <<>>, content |-> <<>>, platform |-> "", date |-> <<>>,
     include_hashtags |-> FALSE, base |-> <<>>, hashtags |-> <<>>, appended |-> <<>>,
     text |-> <<>>, length |-> 0, within_limits |-> TRUE]

\* ContentFormatter.__init__
FormatterInit ==
    /\ used_hashtags = {}
    /\ call = NoCall
    /\ placed = {}

\* no pure function has been applied yet
NoText == [module |-> "", input |-> <<>>, passes |-> <<>>]

NoSuggestions == [op |-> "__init__", platforms |-> <<>>, posts_per_week |-> 0, result |-> <<>>]

NoThread == [op |-> "__init__", title |-> <<>>, content |-> <<>>, platform |-> "", result |-> <<>>]

PureInit ==
    /\ sanitized = NoText
    /\ suggestions = NoSuggestions
    /\ threaded = NoThread

\* PostScheduler.__init__
SchedulerInit ==
    /\ scheduled_jobs = <<>>
    /\ running = FALSE
    /\ post_callback = FALSE
    /\ posted_content_ids = {}
    /\ jobs = <<>>
    /\ fns = <<>>
    /\ threads = <<>>
    /\ timers = [e \in EntryIds |-> 0]
    /\ file = [exists |-> FALSE, scheduled_jobs |-> <<>>, posted_content_ids |-> {}]
    /\ last = Returned("__init__", "None")
    /\ failed = FALSE
    /\ trace = <<>>

Init == SchedulerInit /\ FormatterInit /\ PureInit

\* ------------------------------------------------------ set_post_callback
set_post_callback ==
    /\ ~post_callback
    /\ post_callback' = TRUE
    /\ last' = Returned("set_post_callback", "None")
    /\ UNCHANGED fvars
    /\ UNCHANGED << scheduled_jobs, running, posted_content_ids, jobs, fns, threads,
                    timers, file, failed, trace >>

\* --------------------------------------------------- schedule_single_post
SingleDescriptor(entry_id, post_time) ==
    [type |-> "single", entry_id |-> entry_id, time |-> post_time,
     platforms |-> DefaultPlatforms, job_tag |-> Tag("single_post_", entry_id)]

schedule_single_post(entry_id, post_time) ==
    /\ IF HasStrftime(post_time) /\ ValidAt(Strftime(post_time))
       THEN /\ fns' = Append(fns, NewFn("single", <<entry_id>>, 0))
            /\ trace' = Append(trace, NewTrace(Tag("single_post_", entry_id)))
            /\ jobs' = Append(jobs, NewJob("day", Strftime(post_time), Len(fns) + 1,
                                           Tag("single_post_", entry_id)))
            /\ scheduled_jobs' = Append(scheduled_jobs, SingleDescriptor(entry_id, post_time))
            /\ last' = Returned("schedule_single_post", "True")
       ELSE /\ last' = Returned("schedule_single_post", "False")
            /\ UNCHANGED << fns, trace, jobs, scheduled_jobs >>
    /\ UNCHANGED fvars
    /\ UNCHANGED << running, post_callback, posted_content_ids, threads, timers, file, failed >>

\* ----------------------------------------------- schedule_recurring_posts
\* the tag given to the trigger
RecurringTriggerTag(interval_days) ==
    IF interval_days = 1 THEN Tag("recurring_daily", 0)
    ELSE IF interval_days = 7 THEN Tag("recurring_weekly", 0)
    ELSE Tag("recurring_custom", 0)

RecurringEvery(interval_days) ==
    IF interval_days = 1 THEN "day"
    ELSE IF interval_days = 7 THEN "week"
    ELSE "days"

\* the tag recorded in the descriptor: f"recurring_{interval_days}d"
RecurringJobTag(interval_days) == Tag("recurring_%d", interval_days)

RecurringDescriptor(entry_ids, interval_days, start_time) ==
    [type |-> "recurring", entry_ids |-> entry_ids, interval_days |-> interval_days,
     start_time |-> start_time, platforms |-> DefaultPlatforms, randomize |-> TRUE,
     job_tag |-> RecurringJobTag(interval_days)]

schedule_recurring_posts(entry_ids, interval_days, start_time) ==
    /\ IF ValidAt(start_time)
       THEN /\ fns' = Append(fns, NewFn("recurring", entry_ids, interval_days))
            /\ trace' = Append(trace, NewTrace(RecurringJobTag(interval_days)))
            /\ jobs' = Append(jobs, NewJob(RecurringEvery(interval_days), start_time,
                                           Len(fns) + 1, RecurringTriggerTag(interval_days)))
            /\ scheduled_jobs' = Append(scheduled_jobs,
                                        RecurringDescriptor(entry_ids, interval_days, start_time))
            /\ last' = Returned("schedule_recurring_posts", "True")
       ELSE /\ last' = Returned("schedule_recurring_posts", "False")
            /\ UNCHANGED << fns, trace, jobs, scheduled_jobs >>
    /\ UNCHANGED fvars
    /\ UNCHANGED << running, post_callback, posted_content_ids, threads, timers, file, failed >>

\* -------------------------------------------------- schedule_random_posts
days_of_week == <<"monday", "tuesday", "wednesday", "thursday", "friday", "saturday", "sunday">>

\* random.sample(days_of_week, k): the sequences of k distinct days; the model
\* draws them among the first MaxDay days of the week
DaySamples(k) ==
    { s \in [1..k -> { days_of_week[d] : d \in 1..Min(MaxDay, 7) }] :
        \A i, j \in 1..k : i # j => s[i] # s[j] }

\* the trigger times one pass of the loop body can produce for a window:
\* [ok |-> FALSE] when the pass raises, [ok |-> TRUE, at |-> post_time] otherwise
WindowTimes(w) ==
    IF ~(ParsesAsInts(w.start) /\ ParsesAsInts(w.end)) \/ w.start[1] > w.end[1]
    THEN { [ok |-> FALSE, at |-> <<>>] }
    ELSE { [ok |-> ValidAt(<<h, m>>), at |-> <<h, m>>] :
             h \in w.start[1]..w.end[1], m \in 0..59 }
         \ { [ok |-> ValidAt(<<h, m>>), at |-> <<h, m>>] :
               h \in {w.end[1]}, m \in (w.end[2] + 1)..59 }

\* the loop over selected_days: the triggers registered before it ends or raises
RECURSIVE RandomLoop(_, _, _)
RandomLoop(days, time_windows, fn) ==
    IF days = <<>> THEN { [added |-> <<>>, ok |-> TRUE] }
    ELSE IF time_windows = <<>> THEN { [added |-> <<>>, ok |-> FALSE] }
    ELSE UNION { UNION { IF t.ok
                         THEN { [added |-> <<NewJob(Head(days), t.at, fn, Tag("random_posts", 0))>>
                                           \o r.added,
                                 ok |-> r.ok] : r \in RandomLoop(Tail(days), time_windows, fn) }
                         ELSE { [added |-> <<>>, ok |-> FALSE] }
                         : t \in WindowTimes(w) }
                 : w \in Range(time_windows) }

RandomDescriptor(entry_ids, posts_per_week, time_windows, selected_days) ==
    [type |-> "random", entry_ids |-> entry_ids, posts_per_week |-> posts_per_week,
     time_windows |-> time_windows, platforms |-> DefaultPlatforms,
     selected_days |-> selected_days, job_tag |-> Tag("random_posts", 0)]

schedule_random_posts(entry_ids, posts_per_week, time_windows) ==
    /\ \E selected_days \in DaySamples(Min(posts_per_week, 7)) :
       \E r \in RandomLoop(selected_days, time_windows, Len(fns) + 1) :
          /\ jobs' = jobs \o r.added
          /\ IF r.added # <<>>
             THEN /\ fns' = Append(fns, NewFn("random", entry_ids, 0))
                  /\ trace' = Append(trace, NewTrace(IF r.ok THEN Tag("random_posts", 0) ELSE NoTag))
             ELSE UNCHANGED << fns, trace >>
          /\ IF r.ok
             THEN /\ scheduled_jobs' = Append(scheduled_jobs,
                         RandomDescriptor(entry_ids, posts_per_week, time_windows, selected_days))
                  /\ last' = Returned("schedule_random_posts", "True")
             ELSE /\ last' = Returned("schedule_random_posts", "False")
                  /\ UNCHANGED scheduled_jobs
    /\ UNCHANGED fvars
    /\ UNCHANGED << running, post_callback, posted_content_ids, threads, timers, file, failed >>


\* --------------------------------------------------------- start_scheduler
\* a thread running run_scheduler, about to test `while self.running`
NewThread == [pc |-> "check", todo |-> {}, cur |-> 0, arg |-> 0, cleared |-> FALSE]

start_scheduler ==
    /\ IF running
       THEN UNCHANGED << running, threads >>
       ELSE /\ Len(threads) < MaxThreads
            /\ running' = TRUE
            /\ threads' = Append(threads, NewThread)
    /\ last' = Returned("start_scheduler", "None")
    /\ UNCHANGED fvars
    /\ UNCHANGED << scheduled_jobs, post_callback, posted_content_ids, jobs, fns, timers,
                    file, failed, trace >>

\* ---------------------------------------------------------- stop_scheduler
\* join(timeout=5) returns when the thread has ended or after 5 s, whichever is
\* first; it changes no state
stop_scheduler ==
    /\ running' = FALSE
    /\ last' = Returned("stop_scheduler", "None")
    /\ UNCHANGED fvars
    /\ UNCHANGED << scheduled_jobs, post_callback, posted_content_ids, jobs, fns, threads,
                    timers, file, failed, trace >>

\* ---------------------------------------------------------- clear_all_jobs
Unclean == [f \in DOMAIN trace |-> Disturbed(trace[f])]

clear_all_jobs ==
    /\ jobs' = ScheduleClear
    /\ scheduled_jobs' = <<>>
    /\ posted_content_ids' = {}
    /\ trace' = Unclean
    /\ last' = Returned("clear_all_jobs", "None")
    /\ UNCHANGED fvars
    /\ UNCHANGED << running, post_callback, fns, threads, timers, file, failed >>

\* ------------------------------------------------------- clear_jobs_by_tag
clear_jobs_by_tag(tag) ==
    /\ jobs' = ScheduleClearTag(tag)
    /\ scheduled_jobs' = WithoutTag(scheduled_jobs, tag)
    /\ last' = Returned("clear_jobs_by_tag", "None")
    /\ UNCHANGED fvars
    /\ UNCHANGED << running, post_callback, posted_content_ids, fns, threads, timers,
                    file, failed, trace >>

\* the tags a caller can name: those of descriptors and those of triggers
Tags ==
    { Tag("single_post_", e) : e \in EntryIds }
    \cup { RecurringJobTag(i) : i \in Intervals }
    \cup { RecurringTriggerTag(i) : i \in Intervals }
    \cup { Tag("random_posts", 0) }

\* ---------------------------------------------------- save_schedule_config
\* json.dump(..., default=str): a datetime is written as its str(); a tuple is
\* written as an array, which json.load reads back as a list
JsonDescriptor(d) ==
    IF d.type = "single"
    THEN [d EXCEPT !.time = [py |-> "str", hm |-> d.time.hm]]
    ELSE IF d.type = "random"
    THEN [d EXCEPT !.time_windows =
             [i \in DOMAIN d.time_windows |->
                 [py |-> "list", start |-> d.time_windows[i].start, end |-> d.time_windows[i].end]]]
    ELSE d

JsonJobs(descriptors) == [i \in DOMAIN descriptors |-> JsonDescriptor(descriptors[i])]

\* list(a_set): the elements in some order
ListsOf(S) ==
    { s \in [1..Cardinality(S) -> S] : \A i, j \in 1..Cardinality(S) : i # j => s[i] # s[j] }

\* the 'timestamp' key is written and never read back; it is left out
save_schedule_config ==
    /\ \/ \E ids \in ListsOf(posted_content_ids) :
            /\ file' = [exists |-> TRUE, scheduled_jobs |-> JsonJobs(scheduled_jobs),
                        posted_content_ids |-> ids]
            /\ last' = Returned("save_schedule_config", "True")
       \/ /\ UNCHANGED file              \* open() raises: the path is not writable
          /\ last' = Returned("save_schedule_config", "False")
    /\ UNCHANGED fvars
    /\ UNCHANGED << scheduled_jobs, running, post_callback, posted_content_ids, jobs, fns,
                    threads, timers, failed, trace >>

\* ---------------------------------------------------- load_schedule_config
load_schedule_config ==
    /\ IF file.exists
       THEN /\ scheduled_jobs' = file.scheduled_jobs
            /\ posted_content_ids' = Range(file.posted_content_ids)
            /\ jobs' = ScheduleClear
            /\ trace' = Unclean
            /\ last' = Returned("load_schedule_config", "True")
       ELSE /\ last' = Returned("load_schedule_config", "False")
            /\ UNCHANGED << scheduled_jobs, posted_content_ids, jobs, trace >>
    /\ UNCHANGED fvars
    /\ UNCHANGED << running, post_callback, fns, threads, timers, file, failed >>


\* ------------------------------------------------------------------- time
\* the clock reaches the next_run of a live trigger: job.should_run becomes true
come_due(i) ==
    /\ i \in LiveJobs
    /\ ~jobs[i].due
    /\ jobs' = [jobs EXCEPT ![i].due = TRUE]
    /\ UNCHANGED fvars
    /\ UNCHANGED << scheduled_jobs, running, post_callback, posted_content_ids, fns, threads,
                    timers, file, last, failed, trace >>

\* ----------------------------------------------------------- run_scheduler
\* the loop test of run_scheduler
WhileRunning_Forever == TRUE

WhileRunning == running

\* `while self.running:` and, when it holds, the start of schedule.run_pending(),
\* which collects the jobs that should run; otherwise the thread ends
run_scheduler(w) ==
    /\ threads[w].pc = "check"
    /\ threads' = [threads EXCEPT ![w] =
                      IF WhileRunning
                      THEN [@ EXCEPT !.pc = "pending",
                                     !.todo = { i \in LiveJobs : jobs[i].due }]
                      ELSE [@ EXCEPT !.pc = "done"]]
    /\ UNCHANGED fvars
    /\ UNCHANGED << scheduled_jobs, running, post_callback, posted_content_ids, jobs, fns,
                    timers, file, last, failed, trace >>

\* run_pending() has run every collected job: time.sleep(60)
run_pending_done(w) ==
    /\ threads[w].pc = "pending"
    /\ threads[w].todo = {}
    /\ threads' = [threads EXCEPT ![w].pc = "sleep"]
    /\ UNCHANGED fvars
    /\ UNCHANGED << scheduled_jobs, running, post_callback, posted_content_ids, jobs, fns,
                    timers, file, last, failed, trace >>

\* time.sleep(60) returns
wake(w) ==
    /\ threads[w].pc = "sleep"
    /\ threads' = [threads EXCEPT ![w].pc = "check"]
    /\ UNCHANGED fvars
    /\ UNCHANGED << scheduled_jobs, running, post_callback, posted_content_ids, jobs, fns,
                    timers, file, last, failed, trace >>

\* schedule: Job.run() after the job function returned: last_run is set and the
\* next run is scheduled, so the job is no longer due
JobRan(i) == [jobs EXCEPT ![i].due = FALSE]

\* a thread is inside post_callback on behalf of job function f
InFlight(f) ==
    \E t \in DOMAIN threads : threads[t].pc = "call" /\ jobs[threads[t].cur].fn = f

\* the job function of trigger i calls self.post_callback(entry, platforms);
\* `cleared` notes, for the properties, that it emptied the posted-set first
Invoke(w, i, entry) ==
    /\ threads' = [threads EXCEPT ![w] =
                      [pc |-> "call", todo |-> threads[w].todo \ {i}, cur |-> i, arg |-> entry,
                       cleared |-> posted_content_ids' # posted_content_ids]]
    /\ trace' = [g \in DOMAIN trace |->
                    IF g = jobs[i].fn /\ trace[g].clean /\ ~InFlight(g)
                    THEN [trace[g] EXCEPT
                            !.calls = IF Len(@) < Len(fns[g].entry_ids) THEN Append(@, entry) ELSE @]
                    ELSE Disturbed(trace[g])]

\* an exception leaves the job function, Job.run() and run_pending(), and is
\* caught by run_scheduler, which logs it and sleeps: the job is still due and
\* the jobs collected after it are not run in this tick
Caught_ThreadDies(thread) == [pc |-> "done", todo |-> {}, cur |-> 0, arg |-> 0, cleared |-> FALSE]

Caught(thread) == [pc |-> "sleep", todo |-> {}, cur |-> 0, arg |-> 0, cleared |-> FALSE]

\* the job function of trigger i returns False without calling post_callback
ReturnFalse(w, i) ==
    /\ threads' = [threads EXCEPT ![w].todo = @ \ {i}]
    /\ jobs' = JobRan(i)
    /\ UNCHANGED << posted_content_ids, fns, trace >>

\* run_pending() runs the next collected job, of a single post: job()
single_job(w, i) ==
    /\ threads[w].pc = "pending"
    /\ i \in threads[w].todo
    /\ fns[jobs[i].fn].kind = "single"
    /\ LET entry_id == fns[jobs[i].fn].entry_ids[1] IN
       IF post_callback /\ entry_id \notin posted_content_ids
       THEN /\ UNCHANGED << posted_content_ids, fns, jobs >>
            /\ Invoke(w, i, entry_id)
       ELSE ReturnFalse(w, i)
    /\ UNCHANGED fvars
    /\ UNCHANGED << scheduled_jobs, running, post_callback, timers, file, last, failed >>

\* entry_ids[entry_index % len(entry_ids)], lists being indexed from 1 here
AtCursor(entry_ids, entry_index) == entry_ids[(entry_index % Len(entry_ids)) + 1]

\* entry_index += 1; the cursor is only ever used modulo len(entry_ids) and is
\* kept reduced
Advance_Stuck(entry_ids, entry_index) == entry_index

Advance(entry_ids, entry_index) == (entry_index + 1) % Len(entry_ids)

\* the cursor after the skip test of rotating_job
AfterSkip(entry_ids, entry_index, posted) ==
    IF AtCursor(entry_ids, entry_index) \in posted
    THEN Advance(entry_ids, entry_index)
    ELSE entry_index

\* run_pending() runs the next collected job, of recurring posts: rotating_job()
rotating_job(w, i) ==
    /\ threads[w].pc = "pending"
    /\ i \in threads[w].todo
    /\ fns[jobs[i].fn].kind = "recurring"
    /\ LET f == jobs[i].fn
           entry_ids == fns[f].entry_ids
           entry_index == AfterSkip(entry_ids, fns[f].entry_index, posted_content_ids)
       IN  IF post_callback /\ entry_ids # <<>>
           THEN /\ fns' = [fns EXCEPT ![f].entry_index = entry_index]
                /\ UNCHANGED << posted_content_ids, jobs >>
                /\ Invoke(w, i, AtCursor(entry_ids, entry_index))
           ELSE ReturnFalse(w, i)
    /\ UNCHANGED fvars
    /\ UNCHANGED << scheduled_jobs, running, post_callback, timers, file, last, failed >>

\* variants of the list: every entry, posted or not; and the entries not
\* posted, even when none is left
AvailableEntries_Unfiltered(entry_ids, posted) == entry_ids

AvailableEntries_NoReset(entry_ids, posted) == Without(entry_ids, posted)

\* the list random_job chooses from: the entries not posted, or all of them when
\* none is left
AvailableEntries(entry_ids, posted) ==
    IF Without(entry_ids, posted) = <<>> THEN entry_ids ELSE Without(entry_ids, posted)

\* run_pending() runs the next collected job, of random posts: random_job()
random_job(w, i) ==
    /\ threads[w].pc = "pending"
    /\ i \in threads[w].todo
    /\ fns[jobs[i].fn].kind = "random"
    /\ LET entry_ids == fns[jobs[i].fn].entry_ids
           available_entries == AvailableEntries(entry_ids, posted_content_ids)
       IN  IF post_callback /\ entry_ids # <<>>
           THEN /\ posted_content_ids' = IF Without(entry_ids, posted_content_ids) = <<>>
                                         THEN {}
                                         ELSE posted_content_ids
                /\ IF available_entries = <<>>
                   THEN \* random.choice raises IndexError on an empty list
                        /\ threads' = [threads EXCEPT ![w] = Caught(@)]
                        /\ trace' = [trace EXCEPT ![jobs[i].fn] = Disturbed(@)]
                   ELSE \E entry_id \in Range(available_entries) : Invoke(w, i, entry_id)
                /\ UNCHANGED << fns, jobs >>
           ELSE ReturnFalse(w, i)
    /\ UNCHANGED fvars
    /\ UNCHANGED << scheduled_jobs, running, post_callback, timers, file, last, failed >>

\* what post_callback can do: return True, return False, raise
Outcomes == {"True", "False", "raise"}

\* `if result: self.posted_content_ids.add(entry)`: the posted-set after the
\* callback returned; a variant adds the entry whatever was returned
PostedAfter_Always(posted, entry, outcome) == posted \cup {entry}

PostedAfter(posted, entry, outcome) ==
    IF outcome = "True" THEN posted \cup {entry} ELSE posted

\* the threading.Timer removals that are pending, of the entries 1..e
RECURSIVE PendingTimers(_, _)
PendingTimers(pending, e) ==
    IF e = 0 THEN 0 ELSE pending[e] + PendingTimers(pending, e - 1)

\* threading.Timer(..., discard current_entry).start(): one more removal of the
\* entry is pending; at most MaxTimers pending removals are followed at a time
Armed(pending, entry) ==
    IF PendingTimers(pending, MaxEntry) < MaxTimers
    THEN [pending EXCEPT ![entry] = @ + 1]
    ELSE pending

\* post_callback ends and the rest of the job function runs, unless it raised
post_callback_returns(w, outcome) ==
    /\ threads[w].pc = "call"
    /\ LET i == threads[w].cur
           f == jobs[i].fn
           entry == threads[w].arg
       IN  IF outcome = "raise"
           THEN /\ threads' = [threads EXCEPT ![w] = Caught(@)]
                /\ trace' = [trace EXCEPT ![f] = Disturbed(@)]
                /\ UNCHANGED << posted_content_ids, timers, fns, jobs >>
           ELSE /\ posted_content_ids' = PostedAfter(posted_content_ids, entry, outcome)
                /\ timers' = IF outcome = "True" /\ fns[f].kind = "recurring"
                             THEN Armed(timers, entry)
                             ELSE timers
                /\ fns' = IF fns[f].kind = "recurring"
                          THEN [fns EXCEPT ![f].entry_index = Advance(fns[f].entry_ids, @)]
                          ELSE fns
                /\ jobs' = JobRan(i)
                /\ threads' = [threads EXCEPT ![w] =
                                  [@ EXCEPT !.pc = "pending", !.cur = 0, !.arg = 0, !.cleared = FALSE]]
                /\ trace' = [g \in DOMAIN trace |->
                                IF g = f /\ outcome = "True"
                                THEN [trace[g] EXCEPT !.succeeded = TRUE]
                                ELSE Disturbed(trace[g])]
    /\ failed' = (failed \/ outcome # "True")
    /\ UNCHANGED fvars
    /\ UNCHANGED << scheduled_jobs, running, post_callback, file, last >>

\* the threading.Timer started by rotating_job runs:
\* self.posted_content_ids.discard(current_entry)
timer_fires(e) ==
    /\ timers[e] > 0
    /\ timers' = [timers EXCEPT ![e] = @ - 1]
    /\ posted_content_ids' = posted_content_ids \ {e}
    /\ trace' = Unclean
    /\ UNCHANGED fvars
    /\ UNCHANGED << scheduled_jobs, running, post_callback, jobs, fns, threads, file, last, failed >>

\* ------------------------------------------------------------------ system
\* the worker threads, the clock and the timers
Background ==
    \/ \E i \in DOMAIN jobs : come_due(i)
    \/ \E w \in DOMAIN threads : run_scheduler(w)
    \/ \E w \in DOMAIN threads : run_pending_done(w)
    \/ \E w \in DOMAIN threads : wake(w)
    \/ \E w \in DOMAIN threads, i \in DOMAIN jobs : single_job(w, i)
    \/ \E w \in DOMAIN threads, i \in DOMAIN jobs : rotating_job(w, i)
    \/ \E w \in DOMAIN threads, i \in DOMAIN jobs : random_job(w, i)
    \/ \E w \in DOMAIN threads, outcome \in Outcomes : post_callback_returns(w, outcome)
    \/ \E e \in EntryIds : timer_fires(e)

\* The scheduler at work: jobs of the three kinds are scheduled over every
\* entry, the scheduler is started once, triggers come due and are run.
Next ==
    \/ set_post_callback
    \/ Room /\ schedule_single_post(1, ValidPostTime)
    \/ Room /\ schedule_recurring_posts(AllEntries, 1, NineOClock)
    \/ Room /\ schedule_random_posts(AllEntries, 1, << Window(NineOClock, NineOClock) >>)
    \/ start_scheduler
    \/ Background

Spec == Init /\ [][Next]_vars

\* Deduplication: a single post of entry 1 and one more job, recurring or
\* random, over the same entry, run by one worker.
NextDedup ==
    \/ set_post_callback
    \/ fns = <<>> /\ schedule_single_post(1, ValidPostTime)
    \/ Len(fns) = 1 /\ schedule_recurring_posts(<<1>>, 1, NineOClock)
    \/ Len(fns) = 1 /\ schedule_random_posts(<<1>>, 1, << Window(NineOClock, NineOClock) >>)
    \/ start_scheduler
    \/ Background

SpecDedup == Init /\ [][NextDedup]_vars

\* The life cycle: single-post jobs, and a scheduler that is started and
\* stopped any number of times while its workers run.
NextLife ==
    \/ set_post_callback
    \/ Room /\ schedule_single_post(1, ValidPostTime)
    \/ start_scheduler
    \/ stop_scheduler
    \/ \E i \in DOMAIN jobs : come_due(i)
    \/ \E w \in DOMAIN threads : run_scheduler(w)
    \/ \E w \in DOMAIN threads : run_pending_done(w)
    \/ \E w \in DOMAIN threads : wake(w)
    \/ \E w \in DOMAIN threads, i \in DOMAIN jobs : single_job(w, i)
    \/ \E w \in DOMAIN threads, outcome \in Outcomes : post_callback_returns(w, outcome)

SpecLife == Init /\ [][NextLife]_vars

\* a step of worker thread w
ThreadStep(w) ==
    /\ w \in DOMAIN threads
    /\ \/ run_scheduler(w)
       \/ run_pending_done(w)
       \/ wake(w)
       \/ \E i \in DOMAIN jobs : single_job(w, i)
       \/ \E outcome \in Outcomes : post_callback_returns(w, outcome)

\* The operating system runs every thread that can take a step, time.sleep(60)
\* returns, and post_callback ends.
FairLife == Init /\ [][NextLife]_vars /\ \A w \in 1..MaxThreads : WF_vars(ThreadStep(w))

\* The caller's side: jobs are scheduled with arguments of every sort and
\* cancelled; no worker runs.
NextSetup ==
    \/ \E entry_id \in EntryIds, post_time \in PostTimes :
          Room /\ schedule_single_post(entry_id, post_time)
    \/ \E entry_ids \in EntryLists, interval_days \in Intervals, start_time \in StartTimes :
          Room /\ schedule_recurring_posts(entry_ids, interval_days, start_time)
    \/ \E entry_ids \in EntryLists, posts_per_week \in PostsPerWeek, time_windows \in WindowLists :
          Room /\ schedule_random_posts(entry_ids, posts_per_week, time_windows)
    \/ clear_all_jobs
    \/ \E tag \in Tags : clear_jobs_by_tag(tag)

SpecSetup == Init /\ [][NextSetup]_vars

\* Persistence: jobs of the three kinds over entry 1 are scheduled and run by one worker,
\* and the configuration is saved and loaded at any moment.
NextPersist ==
    \/ set_post_callback
    \/ Room /\ schedule_single_post(1, ValidPostTime)
    \/ Room /\ schedule_recurring_posts(<<1>>, 1, NineOClock)
    \/ Room /\ schedule_random_posts(<<1>>, 1, << Window(NineOClock, NineOClock) >>)
    \/ start_scheduler
    \/ save_schedule_config
    \/ load_schedule_config
    \/ Background

SpecPersist == Init /\ [][NextPersist]_vars

\* ============================================================ properties
Alive == { w \in DOMAIN threads : threads[w].pc # "done" }

\* the job function a thread is inside post_callback for
Calling(w, kind) == /\ threads[w].pc = "call"
                    /\ fns[jobs[threads[w].cur].fn].kind = kind

\* C2: when post_callback returns False or raises, for a job of any kind, the
\* entry is not added to the posted-set, every trigger stays registered (the
\* one that raised stays due), the scheduler stays running and the worker stays
\* in its loop, about to run the next collected job or to sleep until the next tick.
C2_FailureKeepsLoop ==
    [][\A w \in DOMAIN threads : \A outcome \in {"False", "raise"} :
          post_callback_returns(w, outcome) =>
             /\ LiveJobs' = LiveJobs
             /\ posted_content_ids' = posted_content_ids
             /\ running' = running
             /\ threads'[w].pc \in {"pending", "sleep"}
             /\ (outcome = "raise" => jobs'[threads[w].cur].due = jobs[threads[w].cur].due)
      ]_vars

\* C2 witness: after a callback failed, the worker is executing a trigger
C2_Witness ==
    \E w \in DOMAIN threads :
        /\ threads[w].pc = "call"
        /\ failed

\* C3: every run of a random job with the callback set and a non-empty entry
\* list invokes the callback with an ID of the list; when every ID of the list
\* is in the posted-set, the posted-set is cleared by that run.
C3_RandomAlwaysPicks ==
    [][\A w \in DOMAIN threads : \A i \in DOMAIN jobs :
          (random_job(w, i) /\ post_callback /\ fns[jobs[i].fn].entry_ids # <<>>) =>
             /\ threads'[w].pc = "call"
             /\ threads'[w].cur = i
             /\ threads'[w].arg \in Range(fns[jobs[i].fn].entry_ids)
             /\ (Range(fns[jobs[i].fn].entry_ids) \subseteq posted_content_ids
                    => posted_content_ids' = {})
      ]_vars

\* C3 witness: a random job is invoking the callback with an ID of its list
\* after it found every ID posted and cleared the posted-set
C3_Witness ==
    \E w \in DOMAIN threads :
        /\ Calling(w, "random")
        /\ threads[w].cleared
        /\ posted_content_ids = {}
        /\ threads[w].arg \in Range(fns[jobs[threads[w].cur].fn].entry_ids)

\* C4: a recurring job over n distinct IDs, defined over an empty posted-set and
\* run undisturbed (callback always succeeding, one run at a time, no timer, no
\* other job), invokes the callback with pairwise distinct IDs of its list in
\* its first n runs.
C4_RotationDistinct ==
    \A f \in DOMAIN fns :
        (fns[f].kind = "recurring" /\ trace[f].clean) =>
            /\ \A a, b \in DOMAIN trace[f].calls :
                  a # b => trace[f].calls[a] # trace[f].calls[b]
            /\ Range(trace[f].calls) \subseteq Range(fns[f].entry_ids)

\* C4 witness: such a job has completed its first n >= 2 runs
C4_Witness ==
    \E f \in DOMAIN fns :
        /\ fns[f].kind = "recurring"
        /\ trace[f].clean
        /\ Len(fns[f].entry_ids) >= 2
        /\ Len(trace[f].calls) = Len(fns[f].entry_ids)
        /\ ~InFlight(f)

\* C5 (as claimed): a single-post job never invokes the callback while its entry
\* is in the posted-set, nor after its callback has succeeded once.
C5_SingleFiresOnce ==
    [][\A w \in DOMAIN threads : \A i \in DOMAIN jobs :
          (single_job(w, i) /\ threads'[w].pc = "call") =>
             /\ fns[jobs[i].fn].entry_ids[1] \notin posted_content_ids
             /\ ~trace[jobs[i].fn].succeeded
      ]_vars


\* C1 (as claimed): at most one worker thread is alive at any time.
C1_OneWorker == Cardinality(Alive) <= 1

\* C8: a worker begins a tick only while the running flag is set, so no trigger
\* is executed in a tick that begins after stop_scheduler; and once the flag is
\* cleared, unless start_scheduler sets it again, every worker ends (a callback
\* in flight returns first, and the rest of the tick and the sleep complete).
C8_StopEndsLoop ==
    /\ [][\A w \in DOMAIN threads :
             (threads[w].pc = "check" /\ threads'[w].pc = "pending") => running]_vars
    /\ [][\A w \in DOMAIN threads :
             (threads[w].pc = "check" /\ ~running) => threads'[w].pc \in {"check", "done"}]_vars
    /\ (~running) ~> (running \/ Alive = {})

\* C8 witness: stop_scheduler was the last operation, and a worker that was in
\* the middle of a callback when it was called has ended
C8_Witness ==
    /\ last.op = "stop_scheduler"
    /\ ~running
    /\ \E w \in DOMAIN threads :
          /\ threads[w].pc = "done"
          /\ \E f \in DOMAIN trace : trace[f].calls # <<>>


\* the descriptor of job function f is in scheduled_jobs
Described(f) == \E k \in DOMAIN scheduled_jobs : scheduled_jobs[k].job_tag = trace[f].job_tag

\* C6 (as claimed): clear_jobs_by_tag called with the job_tag of a job's
\* descriptor removes the descriptor and cancels every trigger of that job, and
\* leaves the descriptors and triggers of jobs with another tag, the posted-set
\* and the running flag as they were.
C6_ClearByTagExact ==
    [][\A f \in DOMAIN fns :
          (Described(f) /\ clear_jobs_by_tag(trace[f].job_tag)) =>
             /\ \A k \in DOMAIN scheduled_jobs' : scheduled_jobs'[k].job_tag # trace[f].job_tag
             /\ \A i \in DOMAIN jobs : jobs[i].fn = f => ~jobs'[i].live
             /\ \A i \in DOMAIN jobs :
                   trace[jobs[i].fn].job_tag # trace[f].job_tag => jobs'[i] = jobs[i]
             /\ scheduled_jobs' = WithoutTag(scheduled_jobs, trace[f].job_tag)
             /\ posted_content_ids' = posted_content_ids
             /\ running' = running
      ]_vars

\* a time_windows list holding a string that is no time
HasBadWindow(time_windows) ==
    \E k \in DOMAIN time_windows :
        ~ValidAt(time_windows[k].start) \/ ~ValidAt(time_windows[k].end)

\* C7 (as claimed): schedule_recurring_posts and schedule_random_posts with an
\* empty entry-ID list, and every schedule_* operation with an invalid time
\* string, return False.
C7_BadSetupReturnsFalse ==
    [][/\ \A interval_days \in Intervals, start_time \in StartTimes :
             schedule_recurring_posts(<<>>, interval_days, start_time) => last'.ret = "False"
       /\ \A posts_per_week \in PostsPerWeek, time_windows \in WindowLists :
             schedule_random_posts(<<>>, posts_per_week, time_windows) => last'.ret = "False"
       /\ \A entry_ids \in EntryLists, interval_days \in Intervals :
             schedule_recurring_posts(entry_ids, interval_days, BadClock) => last'.ret = "False"
       /\ \A entry_ids \in EntryLists, posts_per_week \in PostsPerWeek, time_windows \in WindowLists :
             (HasBadWindow(time_windows)
                /\ schedule_random_posts(entry_ids, posts_per_week, time_windows))
             => last'.ret = "False"
      ]_vars

\* the file holds what save_schedule_config writes in the current state
SavedNow ==
    /\ file.exists
    /\ file.scheduled_jobs = JsonJobs(scheduled_jobs)
    /\ Range(file.posted_content_ids) = posted_content_ids

\* C9 (as claimed): loading the file just saved leaves scheduled_jobs and the
\* posted-set equal to what they were before the save.
C9_SaveLoadRoundTrip ==
    [][(SavedNow /\ load_schedule_config) =>
          /\ scheduled_jobs' = scheduled_jobs
          /\ posted_content_ids' = posted_content_ids
      ]_vars

C20_RandomSkipsPosted ==
    [][\A w \in DOMAIN threads : \A i \in DOMAIN jobs :
          (/\ random_job(w, i)
           /\ post_callback
           /\ Range(fns[jobs[i].fn].entry_ids) \ posted_content_ids # {}) =>
             /\ threads'[w].pc = "call"
             /\ threads'[w].arg \in Range(fns[jobs[i].fn].entry_ids) \ posted_content_ids
             /\ posted_content_ids' = posted_content_ids
      ]_vars

\* C20 witness: a random job is invoking the callback with an ID that is not
\* posted while another ID of its list is in the posted-set, which it kept
C20_Witness ==
    \E w \in DOMAIN threads :
        /\ Calling(w, "random")
        /\ ~threads[w].cleared
        /\ threads[w].arg \notin posted_content_ids
        /\ Range(fns[jobs[threads[w].cur].fn].entry_ids) \cap posted_content_ids # {}

\* ================================================= ContentFormatter: strings
\* A Python str is a sequence of characters, and a character is a TLA+ string:
\* one letter for an ASCII character, a name for any other one.
SP == " "
NL == "\n"

\* the characters the regular expression \s and str.strip() take for whitespace
Whitespace == {SP, NL, "\t", "U+00A0"}

\* the characters that stand for upper-case letters in the inputs, and str.lower()
LowerChar(c) ==
    IF c = "V" THEN "v" ELSE IF c = "A" THEN "a" ELSE IF c = "U+00C3" THEN "U+00E3" ELSE c

lower(s) == [i \in DOMAIN s |-> LowerChar(s[i])]

\* [c] * n
Repeat(c, n) == [i \in 1..n |-> c]

Max(a, b) == IF a > b THEN a ELSE b

\* the least and the greatest member of a non-empty set of integers
Least(S) == CHOOSE x \in S : \A y \in S : x <= y

Greatest(S) == 0 - Least({ 0 - x : x \in S })

\* s[a:b] with 0 <= a, 0 <= b (Python's 0-based slice)
Slice(s, a, b) == SubSeq(s, a + 1, Min(b, Len(s)))

\* s.startswith(pat, i - 1): pat occurs in s at the 1-based position i
MatchAt(s, i, pat) ==
    /\ i + Len(pat) - 1 <= Len(s)
    /\ \A k \in 1..Len(pat) : s[i + k - 1] = pat[k]

\* the 1-based positions from `from` on where pat occurs in s
Occurrences(s, pat, from) ==
    { i \in { j \in from..Len(s) : s[j] = Head(pat) } : MatchAt(s, i, pat) }

\* pat in s
Contains(s, pat) ==
    IF pat = <<>> THEN TRUE ELSE Occurrences(s, pat, 1) # {}

\* s.rfind(c) for a single character c: the 0-based index of its last
\* occurrence, or -1
rfind(s, c) ==
    LET at == { i \in 1..Len(s) : s[i] = c }
    IN  IF at = {} THEN -1 ELSE Greatest(at) - 1

\* s.strip()
strip(s) ==
    IF s = <<>>
    THEN s
    ELSE LET ink == { i \in 1..Len(s) : s[i] \notin Whitespace }
         IN  IF ink = {} THEN <<>> ELSE SubSeq(s, Least(ink), Greatest(ink))

\* s.replace(old, new, count) for a non-empty old; count < 0 replaces every
\* occurrence, as s.replace(old, new) does
RECURSIVE replace(_, _, _, _)
replace(s, old, new, count) ==
    IF Len(s) < Len(old) \/ count = 0
    THEN s
    ELSE LET at == Occurrences(s, old, 1)
         IN  IF at = {}
             THEN s
             ELSE LET i == Least(at)
                  IN  SubSeq(s, 1, i - 1) \o new
                        \o replace(SubSeq(s, i + Len(old), Len(s)), old, new,
                                   IF count < 0 THEN count ELSE count - 1)

\* " ".join(parts)
RECURSIVE join(_)
join(parts) ==
    IF parts = <<>> THEN <<>>
    ELSE IF Len(parts) = 1 THEN parts[1]
    ELSE parts[1] \o <<SP>> \o join(Tail(parts))

\* the 1-based position after the run of whitespace that starts at position i
\* (i itself when s[i] is not whitespace)
AfterWhitespace(s, i) ==
    LET ink == { j \in i..Len(s) : s[j] \notin Whitespace }
    IN  IF ink = {} THEN Len(s) + 1 ELSE Least(ink)

\* the 1-based position where the run of whitespace that ends just before
\* position i starts (i itself when s[i-1] is not whitespace)
BeforeWhitespace(s, i) ==
    LET ink == { j \in 1..(i - 1) : s[j] \notin Whitespace }
    IN  IF ink = {} THEN 1 ELSE Greatest(ink) + 1

\* re.sub(r'\s+', ' ', s): every run of whitespace becomes one space
RECURSIVE re_sub_whitespace(_)
re_sub_whitespace(s) ==
    IF s = <<>>
    THEN s
    ELSE LET at == { i \in 1..Len(s) : s[i] \in Whitespace }
         IN  IF at = {}
             THEN s
             ELSE LET i == Least(at)
                  IN  SubSeq(s, 1, i - 1) \o <<SP>>
                        \o re_sub_whitespace(SubSeq(s, AfterWhitespace(s, i), Len(s)))

\* the 1-based positions i where r'<[^>]+>' matches: a "<", then at least one
\* character other than ">", then the first ">" after them
TagStarts(s) ==
    { i \in 1..Len(s) :
        /\ s[i] = "<"
        /\ i + 1 <= Len(s) /\ s[i + 1] # ">"
        /\ \E j \in (i + 2)..Len(s) : s[j] = ">" }

\* re.sub(r'<[^>]+>', '', s): the leftmost match is cut out, up to the first
\* ">" after its "<", and the search goes on behind it
RECURSIVE re_sub_tags(_)
re_sub_tags(s) ==
    IF Len(s) < 3
    THEN s
    ELSE LET at == TagStarts(s)
         IN  IF at = {}
             THEN s
             ELSE LET i == Least(at)
                      j == Least({ k \in (i + 2)..Len(s) : s[k] = ">" })
                  IN  SubSeq(s, 1, i - 1) \o re_sub_tags(SubSeq(s, j + 1, Len(s)))

\* re.sub(r'\s*([MARKS])\s*', r'\1 ', s): the leftmost mark, with the
\* whitespace around it, becomes the mark and one space, and the search goes on
\* behind the whitespace that followed it
RECURSIVE re_sub_punctuation(_, _)
re_sub_punctuation(s, marks) ==
    IF s = <<>>
    THEN s
    ELSE LET at == { i \in 1..Len(s) : s[i] \in marks }
         IN  IF at = {}
             THEN s
             ELSE LET i == Least(at)
                  IN  SubSeq(s, 1, BeforeWhitespace(s, i) - 1) \o <<s[i], SP>>
                        \o re_sub_punctuation(SubSeq(s, AfterWhitespace(s, i + 1), Len(s)), marks)

\* ============================================ ContentFormatter: sanitization
\* a two-character string such as "lt" as two characters, and "&lt;"
Entity(name) == <<"&">> \o name \o <<";">>

\* the quotation marks the two files replace, character by character as the
\* files spell them
LeftDoubleQuote == <<"U+201A", "U+00C4", "U+00FA">>
RightDoubleQuote == <<"U+201A", "U+00C4", "U+00F9">>
LeftSingleQuote == <<"U+201A", "U+00C4", "U+00F2">>
RightSingleQuote == <<"U+201A", "U+00C4", "U+00F4">>
LeftGuillemet == <<"U+00C2", "U+00AB">>
RightGuillemet == <<"U+00C2", "U+00BB">>

\* the chain of .replace() calls that decodes the XML/HTML entities, in the
\* order of the source
ReplaceEntities(text) ==
    LET a == replace(text, Entity(<<"a", "m", "p">>), <<"&">>, -1)
        b == replace(a, Entity(<<"q", "u", "o", "t">>), <<"\"">>, -1)
        c == replace(b, Entity(<<"a", "p", "o", "s">>), <<"'">>, -1)
        d == replace(c, Entity(<<"l", "t">>), <<"<">>, -1)
    IN  replace(d, Entity(<<"g", "t">>), <<">">>, -1)

\* the chain of .replace() calls that normalizes the quotation marks
ReplaceQuotes(text) ==
    LET a == replace(text, LeftDoubleQuote, <<"\"">>, -1)
        b == replace(a, RightDoubleQuote, <<"\"">>, -1)
        c == replace(b, LeftSingleQuote, <<"'">>, -1)
    IN  replace(c, RightSingleQuote, <<"'">>, -1)

\* src/functions/content_formatter.py: sanitize_for_social(content)
sanitize_for_social(content) ==
    LET spaced == re_sub_whitespace(strip(content))
        decoded == ReplaceEntities(spaced)
        quoted == ReplaceQuotes(decoded)
        untagged == re_sub_tags(quoted)
        punctuated == re_sub_punctuation(untagged, {".", "!", "?", ",", ";", ":"})
    IN  strip(punctuated)

\* _clean_content(content) of either file
clean_content(module, content) ==
    IF module = "src/functions/content_formatter.py"
    THEN sanitize_for_social(content)
    ELSE LET spaced == re_sub_whitespace(strip(content))
             punctuated == re_sub_punctuation(spaced, {".", "!", "?"})
             untagged == re_sub_tags(punctuated)
         IN  replace(replace(untagged, LeftGuillemet, <<"\"">>, -1),
                     RightGuillemet, <<"\"">>, -1)

\* ---------------------------------------------- the sanitization step, twice
\* the pieces the content strings of the sanitization runs are made of
Pieces ==
    { <<"a">>, <<SP>>, <<".">>, <<",">>, <<"<">>, <<">">>,
      Entity(<<"a", "m", "p">>), Entity(<<"l", "t">>), <<"a", "m", "p", ";">> }

\* the concatenations of at most n pieces
RECURSIVE PieceStrings(_)
PieceStrings(n) ==
    IF n = 0 THEN { <<>> }
    ELSE PieceStrings(n - 1) \cup { s \o p : s \in PieceStrings(n - 1), p \in Pieces }

\* a content string is chosen, for the sanitization step of one of the files
InitSanitize ==
    /\ SchedulerInit
    /\ FormatterInit
    /\ suggestions = NoSuggestions
    /\ threaded = NoThread
    /\ \E module \in Modules : \E content \in PieceStrings(MaxPieces) :
          sanitized = [module |-> module, input |-> content, passes |-> <<>>]

\* the sanitization step is applied to the content, then to its own result
sanitize ==
    /\ sanitized.module \in Modules
    /\ Len(sanitized.passes) < 2
    /\ LET text == IF sanitized.passes = <<>>
                   THEN sanitized.input
                   ELSE sanitized.passes[Len(sanitized.passes)]
       IN  sanitized' = [sanitized EXCEPT
                            !.passes = Append(@, clean_content(sanitized.module, text))]
    /\ UNCHANGED << svars, used_hashtags, call, placed, suggestions, threaded >>

NextSanitize == sanitize

SpecSanitize == InitSanitize /\ [][NextSanitize]_vars

\* C17: sanitizing an already sanitized string gives the same string, in
\* sanitize_for_social and in _clean_content
C17_SanitizeIdempotent ==
    Len(sanitized.passes) = 2 => sanitized.passes[2] = sanitized.passes[1]

\* ================================================= ContentFormatter: tables
\* PLATFORM_LIMITS, the same in both files
PLATFORM_LIMITS ==
       "twitter" :> [text |-> 280, hashtags |-> 2]
    @@ "x" :> [text |-> 280, hashtags |-> 2]
    @@ "instagram" :> [text |-> 2200, hashtags |-> 30]
    @@ "facebook" :> [text |-> 63206, hashtags |-> 3]
    @@ "linkedin" :> [text |-> 3000, hashtags |-> 3]

\* ITALIAN_HASHTAGS, the same in both files
ITALIAN_HASHTAGS ==
    << <<"#", "s", "a", "g", "g", "e", "z", "z", "a">>,
       <<"#", "f", "i", "l", "o", "s", "o", "f", "i", "a">>,
       <<"#", "r", "i", "f", "l", "e", "s", "s", "i", "o", "n", "i">>,
       <<"#", "p", "e", "n", "s", "i", "e", "r", "i">>,
       <<"#", "v", "i", "t", "a">>,
       <<"#", "c", "r", "e", "s", "c", "i", "t", "a">>,
       <<"#", "i", "s", "p", "i", "r", "a", "z", "i", "o", "n", "e">>,
       <<"#", "m", "e", "d", "i", "t", "a", "z", "i", "o", "n", "e">>,
       <<"#", "p", "i", "z", "z", "i", "n", "i">>,
       <<"#", "i", "t", "a", "l", "i", "a", "n">>,
       <<"#", "w", "i", "s", "d", "o", "m">>,
       <<"#", "p", "h", "i", "l", "o", "s", "o", "p", "h", "y">>,
       <<"#", "t", "h", "o", "u", "g", "h", "t", "s">>,
       <<"#", "l", "i", "f", "e">>,
       <<"#", "i", "n", "s", "p", "i", "r", "a", "t", "i", "o", "n">>,
       <<"#", "r", "e", "f", "l", "e", "c", "t", "i", "o", "n">> >>

\* INSTAGRAM_FIXED_HASHTAGS, the same in both files
INSTAGRAM_FIXED_HASHTAGS ==
    << <<"#", "p", "i", "z", "z", "i", "n", "i">>,
       <<"#", "f", "i", "l", "o", "s", "o", "f", "i", "a">>,
       <<"#", "s", "a", "g", "g", "e", "z", "z", "a">>,
       <<"#", "r", "i", "f", "l", "e", "s", "s", "i", "o", "n", "i">>,
       <<"#", "p", "e", "n", "s", "i", "e", "r", "i">>,
       <<"#", "i", "s", "p", "i", "r", "a", "z", "i", "o", "n", "e">>,
       <<"#", "m", "e", "d", "i", "t", "a", "z", "i", "o", "n", "e">>,
       <<"#", "v", "i", "t", "a">>,
       <<"#", "c", "r", "e", "s", "c", "i", "t", "a">>,
       <<"#", "i", "t", "a", "l", "i", "a">>,
       <<"#", "i", "t", "a", "l", "i", "a", "n", "q", "u", "o", "t", "e", "s">>,
       <<"#", "p", "h", "i", "l", "o", "s", "o", "p", "h", "y">>,
       <<"#", "w", "i", "s", "d", "o", "m">>,
       <<"#", "m", "i", "n", "d", "s", "e", "t">>,
       <<"#", "r", "e", "f", "l", "e", "c", "t", "i", "o", "n">>,
       <<"#", "t", "h", "o", "u", "g", "h", "t", "s">>,
       <<"#", "i", "n", "n", "e", "r", "g", "r", "o", "w", "t", "h">>,
       <<"#", "d", "a", "i", "l", "y", "w", "i", "s", "d", "o", "m">>,
       <<"#", "q", "u", "o", "t", "e", "o", "f", "t", "h", "e", "d", "a", "y">>,
       <<"#", "i", "t", "a", "l", "i", "a", "n", "l", "i", "f", "e">> >>

\* keyword_hashtags of _select_hashtags, in the order of the dict; the two files
\* spell the keyword and the hashtag of the third entry differently
keyword_hashtags(module) ==
    << [keyword |-> <<"r", "a", "p", "p", "o", "r", "t", "o">>, hashtag |-> <<"#", "r", "e", "l", "a", "z", "i", "o", "n", "i">>],
       [keyword |-> <<"i", "n", "f", "i", "n", "i", "t", "o">>, hashtag |-> <<"#", "i", "n", "f", "i", "n", "i", "t", "o">>],
       IF module = "src/functions/content_formatter.py"
         THEN [keyword |-> <<"l", "i", "b", "e", "r", "t", "U+221A", "U+2020">>,
               hashtag |-> <<"#", "l", "i", "b", "e", "r", "t", "U+221A", "U+2020">>]
         ELSE [keyword |-> <<"l", "i", "b", "e", "r", "t", "U+00C3", "U+00A0">>,
               hashtag |-> <<"#", "l", "i", "b", "e", "r", "t", "U+00C3", "U+00A0">>],
       [keyword |-> <<"a", "m", "i", "c", "o">>, hashtag |-> <<"#", "a", "m", "i", "c", "i", "z", "i", "a">>],
       [keyword |-> <<"f", "i", "d", "a", "r", "s", "i">>, hashtag |-> <<"#", "f", "i", "d", "u", "c", "i", "a">>],
       [keyword |-> <<"p", "e", "n", "s", "i", "e", "r", "o">>, hashtag |-> <<"#", "p", "e", "n", "s", "i", "e", "r", "i">>],
       [keyword |-> <<"v", "i", "t", "a">>, hashtag |-> <<"#", "v", "i", "t", "a">>],
       [keyword |-> <<"a", "i", "u", "t", "o">>, hashtag |-> <<"#", "a", "i", "u", "t", "o">>] >>

\* ============================================= ContentFormatter: hashtags
\* the loop of _select_hashtags over keyword_hashtags, from entry k on: a
\* hashtag whose keyword occurs in the lower-cased content is selected and
\* recorded as used while a slot is free and it was not used before
RECURSIVE SelectKeywords(_, _, _, _, _, _)
SelectKeywords(keywords, k, content_lower, max_count, selected, used) ==
    IF k > Len(keywords)
    THEN [selected |-> selected, used |-> used]
    ELSE IF /\ Contains(content_lower, keywords[k].keyword)
            /\ Len(selected) < max_count
            /\ keywords[k].hashtag \notin used
         THEN SelectKeywords(keywords, k + 1, content_lower, max_count,
                             Append(selected, keywords[k].hashtag),
                             used \cup {keywords[k].hashtag})
         ELSE SelectKeywords(keywords, k + 1, content_lower, max_count, selected, used)

\* the loop of _select_hashtags that fills the remaining slots from
\* available_general
RECURSIVE FillGeneral(_, _, _, _)
FillGeneral(available_general, max_count, selected, used) ==
    IF Len(selected) < max_count /\ available_general # <<>>
    THEN FillGeneral(Tail(available_general), max_count,
                     Append(selected, Head(available_general)),
                     used \cup {Head(available_general)})
    ELSE [selected |-> selected, used |-> used]

\* available_general of _select_hashtags: the general hashtags not used so far
available_general_All(used) == ITALIAN_HASHTAGS

available_general(used) == Without(ITALIAN_HASHTAGS, used)

\* the hashtag that is always put first while it is unused
Anchor == <<"#", "p", "i", "z", "z", "i", "n", "i">>

\* _select_hashtags(content, platform, max_count) on a formatter whose
\* used_hashtags is `used`: the hashtags it returns and used_hashtags afterwards
select_hashtags(module, content, platform, max_count, used) ==
    IF platform = "instagram"
    THEN [selected |-> Slice(INSTAGRAM_FIXED_HASHTAGS, 0, max_count), used |-> used]
    ELSE LET content_lower == lower(content)
             first == IF Anchor \notin used
                      THEN [selected |-> <<Anchor>>, used |-> used \cup {Anchor}]
                      ELSE [selected |-> <<>>, used |-> used]
             keyed == SelectKeywords(keyword_hashtags(module), 1, content_lower, max_count,
                                     first.selected, first.used)
             filled == FillGeneral(available_general(keyed.used), max_count,
                                   keyed.selected, keyed.used)
         IN  [selected |-> Slice(filled.selected, 0, max_count), used |-> filled.used]

\* the loop of _add_hashtags from hashtag k on: hashtags are taken in order
\* while the post with them stays within char_limit, up to the first that does not fit
RECURSIVE FitGreedy(_, _, _, _, _)
FitGreedy(post, hashtags, k, fitted_hashtags, char_limit) ==
    IF k > Len(hashtags)
    THEN fitted_hashtags
    ELSE IF Len(post \o <<SP>> \o join(Append(fitted_hashtags, hashtags[k]))) <= char_limit
         THEN FitGreedy(post, hashtags, k + 1, Append(fitted_hashtags, hashtags[k]), char_limit)
         ELSE fitted_hashtags

\* the hashtags _add_hashtags appends to the post
Fitted(post, hashtags, char_limit) ==
    IF hashtags = <<>> THEN <<>>
    ELSE IF Len(post \o <<SP>> \o join(hashtags)) <= char_limit THEN hashtags
    ELSE FitGreedy(post, hashtags, 1, <<>>, char_limit)

\* _add_hashtags(post, hashtags, char_limit)
add_hashtags(post, hashtags, char_limit) ==
    IF Fitted(post, hashtags, char_limit) = <<>>
    THEN post
    ELSE post \o <<SP>> \o join(Fitted(post, hashtags, char_limit))

\* ================================================ ContentFormatter: posts
\* index > length * 0.8 of _create_twitter_post (the float product compares
\* with an integer index as the exact product does, for every length a
\* 280-character limit allows)
PastFourFifths_OrAt(index, length) == 5 * index >= 4 * length

PastFourFifths(index, length) == 5 * index > 4 * length

\* the part of the content _create_twitter_post puts into a post that has
\* content_space characters left for it
TwitterContent_Whole(content, content_space) == content

TwitterContent(content, content_space) ==
    IF Len(content) <= content_space
    THEN content
    ELSE LET truncated == Slice(content, 0, content_space - 3)
             last_period == rfind(truncated, ".")
             last_space == rfind(truncated, SP)
         IN  IF PastFourFifths(last_period, Len(truncated))
             THEN Slice(content, 0, last_period + 1)
             ELSE IF PastFourFifths(last_space, Len(truncated))
             THEN Slice(content, 0, last_space) \o <<".", ".", ".">>
             ELSE truncated \o <<".", ".", ".">>

\* _create_twitter_post(title, content, max_chars)
create_twitter_post(title, content, max_chars) ==
    LET remaining_chars == max_chars - Len(title)
    IN  IF remaining_chars > 20
        THEN title \o <<NL, NL>> \o TwitterContent(content, remaining_chars - 2)
        ELSE title

\* _create_base_post(title, content, platform, limits)
create_base_post(module, title, content, platform, limits) ==
    LET cleaned_content == clean_content(module, content)
    IN  IF platform \in {"twitter", "x"}
        THEN create_twitter_post(title, cleaned_content, limits.text - 50)
        ELSE title \o <<NL, NL>> \o cleaned_content

\* the calendar emoji and the thought-balloon emoji, character by character as
\* each file spells them
Calendar(module) ==
    IF module = "src/functions/content_formatter.py"
    THEN <<"U+F8FF", "U+00FC", "U+00EC", "U+00D6">>
    ELSE <<"U+00F0", "U+0178", "U+201C", "U+2026">>

Marker(module) ==
    IF module = "src/functions/content_formatter.py"
    THEN <<"U+F8FF", "U+00FC", "U+00ED", "U+2260">>
    ELSE <<"U+00F0", "U+0178", "U+2019", "U+00AD">>

\* _add_instagram_formatting(post, date)
add_instagram_formatting(module, post, date) ==
    LET dated == IF date # <<>>
                 THEN post \o <<NL, NL>> \o Calendar(module) \o <<SP>> \o date
                 ELSE post
    IN  replace(dated, <<".", SP>>, <<".", NL, NL>>, -1)

\* _add_twitter_formatting(post, date)
add_twitter_formatting(post, date) == post

\* formatted.replace(safe_title, marked_title, 1) of _add_linkedin_formatting:
\* the first occurrence of the title only; a variant replaces every occurrence
TitleReplaced_Every(post, safe_title, marked_title) ==
    replace(post, safe_title, marked_title, -1)

TitleReplaced(post, safe_title, marked_title) ==
    replace(post, safe_title, marked_title, 1)

\* _add_linkedin_formatting(post, title)
add_linkedin_formatting(module, post, title) ==
    LET safe_title == strip(title)
    IN  IF safe_title # <<>>
        THEN TitleReplaced(post, safe_title, Marker(module) \o <<SP>> \o safe_title)
        ELSE Marker(module) \o <<SP>> \o post

\* platform.lower(), for the platform names of the inputs
PlatformLower(platform) == IF platform = "Twitter" THEN "twitter" ELSE platform

\* PLATFORM_LIMITS.get(platform, PLATFORM_LIMITS['twitter'])
LimitsOf_Generous(platform) == [text |-> 63206, hashtags |-> 30]

LimitsOf(platform) ==
    IF platform \in DOMAIN PLATFORM_LIMITS
    THEN PLATFORM_LIMITS[platform]
    ELSE PLATFORM_LIMITS["twitter"]

\* the platform-specific formatting at the end of format_for_platform
Decorated(module, platform, post, title, date) ==
    IF platform = "instagram" THEN add_instagram_formatting(module, post, date)
    ELSE IF platform \in {"twitter", "x"} THEN add_twitter_formatting(post, date)
    ELSE IF platform = "linkedin" THEN add_linkedin_formatting(module, post, title)
    ELSE post

\* the dict format_for_platform returns
FormattedPost_AlwaysWithin(formatted_post, platform, limits) ==
    [text |-> formatted_post, length |-> Len(formatted_post), platform |-> platform,
     within_limits |-> TRUE]

FormattedPost(formatted_post, platform, limits) ==
    [text |-> formatted_post, length |-> Len(formatted_post), platform |-> platform,
     within_limits |-> Len(formatted_post) <= limits.text]

\* the body of format_for_platform(title, content, platform, date,
\* include_hashtags) on the formatter: the call with its arguments, the post
\* before the hashtags, the hashtags selected and those appended, and the dict
\* returned
Formatting(title, content, platform, date, include_hashtags) ==
    LET module == call.module
        lowered == PlatformLower(platform)
        limits == LimitsOf(lowered)
    IN  \E safe_content \in { IF module = "src/functions/content_formatter.py"
                               THEN sanitize_for_social(content)
                               ELSE content } :
        \E base \in { create_base_post(module, title, safe_content, lowered, limits) } :
        \E selection \in { IF include_hashtags
                            THEN select_hashtags(module, content, lowered, limits.hashtags,
                                                 used_hashtags)
                            ELSE [selected |-> <<>>, used |-> used_hashtags] } :
        \E appended \in { IF include_hashtags
                           THEN Fitted(base, selection.selected, limits.text)
                           ELSE <<>> } :
        \E tagged \in { IF include_hashtags
                         THEN add_hashtags(base, selection.selected, limits.text)
                         ELSE base } :
        \E returned \in { FormattedPost(Decorated(module, lowered, tagged, title, date),
                                         lowered, limits) } :
            /\ used_hashtags' = selection.used
            /\ placed' = placed \cup (IF call.platform = "instagram" THEN {}
                                      ELSE Range(call.appended))
            /\ call' = [op |-> "format_for_platform", module |-> module, n |-> call.n + 1,
                        title |-> title, content |-> content, platform |-> returned.platform,
                        date |-> date, include_hashtags |-> include_hashtags,
                        base |-> base, hashtags |-> selection.selected,
                        appended |-> appended,
                        text |-> returned.text, length |-> returned.length,
                        within_limits |-> returned.within_limits]

\* format_for_platform(title, content, platform, date, include_hashtags), called
\* on the formatter
format_for_platform(title, content, platform, date, include_hashtags) ==
    /\ Formatting(title, content, platform, date, include_hashtags)
    /\ UNCHANGED << svars, sanitized, suggestions, threaded >>

\* a formatter of one of the two files is constructed
InitFormat ==
    /\ SchedulerInit
    /\ PureInit
    /\ used_hashtags = {}
    /\ placed = {}
    /\ \E module \in Modules : call = [NoCall EXCEPT !.module = module]

\* another call may be made on the formatter
MoreCalls == call.n < MaxCalls

\* ------------------------------------------------- inputs of the formatter
Platforms == {"twitter", "x", "instagram", "facebook", "linkedin", "mastodon", "Twitter"}

\* a title and a date of a few characters
ShortTitle == <<"A", "i", "u", "t", "o">>

SomeDate == <<"1", "7", ".", "0", "9">>

\* a content with keywords of _select_hashtags, and two sentences
KeywordContent == <<"V", "i", "t", "a", ".", "a", "i", "u", "t", "o", SP, "a">>

\* a title and a content for a post: with and without keywords, and one
\* longer than the shortest platform limit
Posts ==
    { [title |-> ShortTitle, content |-> <<>>],
      [title |-> ShortTitle, content |-> KeywordContent],
      [title |-> Repeat("T", PLATFORM_LIMITS["twitter"].text + 1), content |-> <<"a">>] }

\* Formatting: posts are formatted for any platform, one after the other, on
\* one formatter.
NextFormat ==
    \/ \E platform \in Platforms : \E post \in Posts : \E include_hashtags \in BOOLEAN :
          /\ MoreCalls
          /\ format_for_platform(post.title, post.content, platform, <<>>, include_hashtags)
    \/ \E post \in Posts :
          /\ MoreCalls
          /\ format_for_platform(post.title, post.content, "instagram", SomeDate, TRUE)

SpecFormat == InitFormat /\ [][NextFormat]_vars

\* ============================================== properties of the formatter
Formatted == call.op = "format_for_platform"

\* the limit profile a platform name resolves to: its own, or twitter's
Profile(platform) ==
    IF platform \in {"twitter", "x", "instagram", "facebook", "linkedin"}
    THEN PLATFORM_LIMITS[platform]
    ELSE PLATFORM_LIMITS["twitter"]

\* C11: the dict format_for_platform returns has length equal to the number of
\* characters of text, and within_limits true exactly when that length is at
\* most the max text length of the platform's limit profile (twitter's for an
\* unknown platform), whatever was formatted before.
C11_LengthAndLimit ==
    Formatted =>
        /\ call.length = Len(call.text)
        /\ call.within_limits <=> (call.length <= Profile(call.platform).text)

\* C11 witness: a second call, for an unknown platform, returned a text longer
\* than twitter's limit, flagged as not within limits
C11_Witness ==
    /\ Formatted
    /\ call.n = 2
    /\ call.platform = "mastodon"
    /\ call.length > 280
    /\ ~call.within_limits

\* the hashtag budget of a platform
Budget(platform) ==
    IF platform = "instagram" THEN 30
    ELSE IF platform \in {"facebook", "linkedin"} THEN 3
    ELSE 2

\* the "#" characters of a text (titles and contents of the inputs have none)
HashSigns(text) == { i \in DOMAIN text : text[i] = "#" }

\* C13: the number of hashtags format_for_platform appends is at most the
\* budget of the platform: 2 for twitter, x and unknown platforms, 3 for
\* facebook and linkedin, 30 for instagram, whatever was formatted before.
C13_HashtagBudget ==
    Formatted =>
        /\ Len(call.appended) <= Budget(call.platform)
        /\ Cardinality(HashSigns(call.text)) = Len(call.appended)

\* C13 witness: a call for facebook filled its budget of three hashtags, one
\* of them chosen for a keyword of the content
C13_Witness ==
    /\ Formatted
    /\ call.platform = "facebook"
    /\ Len(call.appended) = 3
    /\ <<"#", "a", "i", "u", "t", "o">> \in Range(call.appended)

\* C18: over the calls for platforms other than instagram on one formatter, no
\* hashtag is appended to the text of two calls: the hashtags appended are in
\* the used-set after the call, and the used-set never loses a member.
C18_NoHashtagTwice ==
    /\ [](call.platform # "instagram" =>
            /\ Range(call.appended) \cap placed = {}
            /\ Range(call.appended) \subseteq used_hashtags
            /\ placed \subseteq used_hashtags)
    /\ [][used_hashtags \subseteq used_hashtags']_vars

\* C18 witness: a second call for a platform other than instagram appended
\* hashtags after an earlier such call had appended some
C18_Witness ==
    /\ Formatted
    /\ call.n = 2
    /\ call.platform # "instagram"
    /\ call.appended # <<>>
    /\ placed # {}

\* ------------------------------------------------------ posts at the limit
\* how many characters the post before the hashtags leaves free below the
\* platform limit: none, room for one hashtag, room for two
Slacks == {0, 9, 20}

\* a title that, followed by its blank line, leaves `slack` characters free
\* below the text limit of the platform
TitleUpTo(platform, slack) == Repeat("T", LimitsOf(platform).text - 2 - slack)

\* Limits: posts whose text before the hashtags is as long as the platform
\* allows, or nearly, are formatted with hashtags.
NextLimit ==
    \E platform \in {"twitter", "facebook", "instagram", "linkedin", "mastodon"} :
    \E slack \in Slacks : \E date \in {<<>>, SomeDate} :
        /\ MoreCalls
        /\ format_for_platform(TitleUpTo(platform, slack), <<>>, platform, date, TRUE)

SpecLimit == InitFormat /\ [][NextLimit]_vars

\* C12: when the post before the hashtags (title plus sanitized content) is
\* within the platform limit, the text format_for_platform returns with
\* include_hashtags=True is within that limit.
C12_HashtagsKeepLimit ==
    (Formatted /\ call.include_hashtags /\ Len(call.base) <= Profile(call.platform).text)
        => Len(call.text) <= Profile(call.platform).text

\* --------------------------------------------------------- linkedin posts
\* titles: empty, of whitespace only, plain, with whitespace around it
LinkedinTitles ==
    { <<>>, <<SP>>, <<"a", "b">>, <<SP, "a", "b", SP>>, <<"p">> }

\* contents: empty, without the title, with the title in it twice
LinkedinContents ==
    { <<>>, <<"h", "e", "l", "l", "o">>, <<"a", "b", SP, "c", SP, "a", "b", ".">> }

\* Linkedin: posts are formatted for linkedin, one after the other, on one
\* formatter.
NextLinkedin ==
    \E title \in LinkedinTitles : \E content \in LinkedinContents :
    \E include_hashtags \in BOOLEAN :
        /\ MoreCalls
        /\ format_for_platform(title, content, "linkedin", <<>>, include_hashtags)

SpecLinkedin == InitFormat /\ [][NextLinkedin]_vars

\* the post of the last call with its hashtags, before the platform formatting
Undecorated ==
    IF call.appended = <<>> THEN call.base ELSE call.base \o <<SP>> \o join(call.appended)

\* text with the marker and a space put in front of its position i
MarkedAt(text, i, marker) ==
    SubSeq(text, 1, i - 1) \o marker \o <<SP>> \o SubSeq(text, i, Len(text))

\* C15: for linkedin and any title, the text returned holds the marker once:
\* in front of the whole post when the title is empty or only whitespace, and
\* otherwise in front of the first occurrence of the stripped title, the rest
\* of the post being left as it was.
C15_MarkerOnce ==
    (Formatted /\ call.platform = "linkedin") =>
        /\ Cardinality(Occurrences(call.text, Marker(call.module), 1)) = 1
        /\ call.text =
              IF strip(call.title) = <<>>
              THEN MarkedAt(Undecorated, 1, Marker(call.module))
              ELSE MarkedAt(Undecorated,
                            Least(Occurrences(Undecorated, strip(call.title), 1)),
                            Marker(call.module))

\* C15 witness: a linkedin post whose title, given with whitespace around it,
\* occurs in the content too, holds the marker once
C15_Witness ==
    /\ Formatted
    /\ call.platform = "linkedin"
    /\ call.title = <<SP, "a", "b", SP>>
    /\ Cardinality(Occurrences(Undecorated, strip(call.title), 1)) = 3
    /\ Cardinality(Occurrences(call.text, Marker(call.module), 1)) = 1

\* ---------------------------------------------------------- twitter posts
\* a content of k letters, a separator, and letters enough to need truncation
Sentence(k, separator) == Repeat("a", k) \o separator \o Repeat("b", 30)

\* where the separator is put: before, at and after four fifths of a
\* truncation window of 20 or 21 characters, and at its last character
SeparatorAt == {15, 16, 17, 19}

\* titles that leave a truncation window of 20 and of 21 characters, with
\* contents that have a period, a space or nothing to cut at
TruncatedPosts ==
    { [title |-> Repeat("T", t), content |-> Sentence(k, separator)] :
         t \in {204, 205}, k \in SeparatorAt, separator \in {<<".">>, <<SP>>} }
    \cup { [title |-> Repeat("T", t), content |-> Repeat("a", 40)] : t \in {204, 205} }

\* titles up to the limit: none, the longest that gets content, the shortest
\* that gets none, as long as the room kept for hashtags allows, as long as the
\* platform allows
TitledPosts ==
    { [title |-> <<>>, content |-> Repeat("a", 240)],
      [title |-> ShortTitle, content |-> KeywordContent],
      [title |-> Repeat("T", 209), content |-> Sentence(10, <<".">>)],
      [title |-> Repeat("T", 210), content |-> KeywordContent],
      [title |-> Repeat("T", 230), content |-> KeywordContent],
      [title |-> Repeat("T", 280), content |-> KeywordContent] }

\* Twitter: posts are formatted for twitter and x, one after the other, on one
\* formatter.
NextTwitter ==
    \E platform \in {"twitter", "x"} : \E post \in TruncatedPosts \cup TitledPosts :
        /\ MoreCalls
        /\ format_for_platform(post.title, post.content, platform, SomeDate, TRUE)

SpecTwitter == InitFormat /\ [][NextTwitter]_vars

\* the last call was for twitter or x
Tweeted == Formatted /\ call.platform \in {"twitter", "x"}

\* the sanitized content of the last call, as _create_twitter_post gets it
Cleaned ==
    clean_content(call.module,
                  IF call.module = "src/functions/content_formatter.py"
                  THEN sanitize_for_social(call.content)
                  ELSE call.content)

\* the characters the content has to fit in, and the length of the window it
\* is cut to when it does not
ContentSpace == PLATFORM_LIMITS["twitter"].text - 50 - Len(call.title) - 2

WindowLength == ContentSpace - 3

\* the last call had to truncate its content
Truncating == Tweeted /\ ContentSpace + 2 > 20 /\ Len(Cleaned) > ContentSpace

\* the content part of the post of the last call: what follows the title and
\* the blank line
ContentPart == SubSeq(call.base, Len(call.title) + 3, Len(call.base))

\* the 0-based positions of character c in the part of the window of the
\* cleaned content that InRange takes for its last fifth
CutsAt(cleaned, c, InRange(_, _)) ==
    { i \in 0..(WindowLength - 1) : cleaned[i + 1] = c /\ InRange(i, WindowLength) }

\* the tie-break: the last period of the range, kept, and no ellipsis; else
\* the last space of the range, dropped, and an ellipsis; else the whole
\* window and an ellipsis
TieBreak(cleaned, part, InRange(_, _)) ==
    LET periods == CutsAt(cleaned, ".", InRange)
        spaces == CutsAt(cleaned, SP, InRange)
    IN  IF periods # {}
        THEN part = Slice(cleaned, 0, Greatest(periods) + 1)
        ELSE IF spaces # {}
        THEN part = Slice(cleaned, 0, Greatest(spaces)) \o <<".", ".", ".">>
        ELSE part = Slice(cleaned, 0, WindowLength) \o <<".", ".", ".">>

\* a position from four fifths of the window on, and one after four fifths
FromFourFifths(i, length) == 5 * i >= 4 * length

AfterFourFifths(i, length) == 5 * i > 4 * length

\* C14: when twitter content is truncated, the tie-break is made over the
\* positions from 0.8 x window length to the end of the window: the last
\* period there ends the content, without ellipsis; failing that the last
\* space there is the cut, with "..."; failing that the window is cut hard,
\* with "...".
C14_TieBreakFromFourFifths ==
    Truncating => TieBreak(Cleaned, ContentPart, FromFourFifths)

\* C14, amended: the same tie-break over the positions strictly after
\* 0.8 x window length.
C14_TieBreakAfterFourFifths ==
    Truncating => TieBreak(Cleaned, ContentPart, AfterFourFifths)

\* C14 witness: the content was truncated with a period exactly at four
\* fifths of the window and a space after it: the cut is at the space
C14_Witness ==
    /\ Truncating
    /\ 5 * rfind(Slice(Cleaned, 0, WindowLength), ".") = 4 * WindowLength
    /\ ContentPart = Slice(Cleaned, 0, rfind(Slice(Cleaned, 0, WindowLength), SP))
                        \o <<".", ".", ".">>

\* C16: for twitter and x, any title of at most 280 characters and any
\* content, whatever was formatted before, the text returned is within limits
\* and begins with the title; the post before the hashtags has at most 230
\* characters when the title has.
C16_TwitterWithinLimits ==
    (Tweeted /\ Len(call.title) <= 280) =>
        /\ call.within_limits
        /\ call.length <= 280
        /\ SubSeq(call.text, 1, Len(call.title)) = call.title
        /\ (Len(call.title) <= 230 => Len(call.base) <= 230)

\* C16 witness: a content too long for the post was truncated to the 230
\* characters kept for title and content, and hashtags were appended within
\* the limit
C16_Witness ==
    /\ Truncating
    /\ Len(call.base) = 230
    /\ call.appended # <<>>
    /\ call.within_limits

\* ------------------------------------------------- PostingTimeOptimizer
\* OPTIMAL_TIMES: the recommended times of day of the platforms of the table
OPTIMAL_TIMES ==
    [twitter   |-> [weekdays |-> <<"09:00", "12:00", "15:00", "18:00">>,
                    weekends |-> <<"10:00", "14:00", "19:00">>],
     instagram |-> [weekdays |-> <<"11:00", "13:00", "17:00", "19:00">>,
                    weekends |-> <<"10:00", "12:00", "16:00", "20:00">>],
     facebook  |-> [weekdays |-> <<"09:00", "13:00", "15:00">>,
                    weekends |-> <<"12:00", "14:00", "16:00">>],
     linkedin  |-> [weekdays |-> <<"08:00", "10:00", "12:00", "14:00", "17:00">>,
                    weekends |-> <<>>]]

\* get_optimal_times: the times of the table, and one time of day, noon, for
\* a platform the table does not have (the get of the empty dict defaults)
get_optimal_times(platform, day_type) ==
    IF platform \in DOMAIN OPTIMAL_TIMES
    THEN OPTIMAL_TIMES[platform][day_type]
    ELSE <<"12:00">>

\* random.sample(population, k): the elements at k distinct positions of the
\* population, in any order
random_sample(population, k) ==
    { [i \in 1..k |-> population[positions[i]]] :
        positions \in { f \in [1..k -> 1..Len(population)] :
                          \A i, j \in 1..k : f[i] = f[j] => i = j } }

\* the list the times of a platform are sampled from: the weekday times for
\* up to three posts a week, the weekday and the weekend times for more
SampledTimes(platform, posts_per_week) ==
    IF posts_per_week <= 3
    THEN get_optimal_times(platform, "weekdays")
    ELSE get_optimal_times(platform, "weekdays") \o get_optimal_times(platform, "weekends")

\* the lists suggest_posting_schedule may store for a platform
suggested_times(platform, posts_per_week) ==
    LET times == SampledTimes(platform, posts_per_week)
    IN  random_sample(times, Min(posts_per_week, Len(times)))

\* suggestions[platform] = suggested_times
Put(dict, key, value) ==
    [k \in DOMAIN dict \cup {key} |-> IF k = key THEN value ELSE dict[k]]

\* the dicts the loop over the platforms may build: a sample of its own for
\* each platform of the list, a later one replacing an earlier one of the
\* same platform
RECURSIVE Suggestions(_, _)
Suggestions(platforms, posts_per_week) ==
    IF platforms = <<>>
    THEN { <<>> }
    ELSE LET platform == platforms[Len(platforms)]
             before == Suggestions(SubSeq(platforms, 1, Len(platforms) - 1), posts_per_week)
         IN  { Put(dict, platform, times) :
                 dict \in before, times \in suggested_times(platform, posts_per_week) }

\* suggest_posting_schedule(platforms, posts_per_week) returns the dict.  The
\* class method keeps no state, so one call from the initial state shows
\* everything it can return.
suggest_posting_schedule(platforms, posts_per_week) ==
    /\ suggestions.op = "__init__"
    /\ \E result \in Suggestions(platforms, posts_per_week) :
          suggestions' = [op |-> "suggest_posting_schedule",
                          platforms |-> platforms,
                          posts_per_week |-> posts_per_week,
                          result |-> result]
    /\ UNCHANGED << svars, used_hashtags, call, placed, sanitized, threaded >>

\* the platform lists the schedule is asked for: each platform of the table
\* and one the table does not have, alone, and two lists of two platforms
PlatformLists ==
    { <<p>> : p \in {"twitter", "instagram", "facebook", "linkedin", "mastodon"} }
    \cup { <<"linkedin", "mastodon">>, <<"mastodon", "mastodon">> }

InitOptimizer ==
    /\ SchedulerInit
    /\ FormatterInit
    /\ PureInit

NextOptimizer ==
    \E platforms \in PlatformLists : \E posts_per_week \in 0..MaxPosts :
        suggest_posting_schedule(platforms, posts_per_week)

SpecOptimizer == InitOptimizer /\ [][NextOptimizer]_vars

\* a schedule was suggested
Suggested == suggestions.op = "suggest_posting_schedule"

\* no time of day occurs twice in the list
NoTimeTwice(times) == \A i, j \in DOMAIN times : times[i] = times[j] => i = j

\* the times of day recommended for a platform, on weekdays or at weekends
RecommendedTimes(platform) ==
    LET weekdays == get_optimal_times(platform, "weekdays")
        weekends == get_optimal_times(platform, "weekends")
    IN  { weekdays[i] : i \in DOMAIN weekdays } \cup { weekends[i] : i \in DOMAIN weekends }

\* C19: for every platform of the list, whether the table has it or not, and
\* every number of posts per week from 0 on, the suggested list has no time
\* of day twice, all its elements are recommended times of the platform, and
\* it has posts_per_week elements when the list sampled from (the weekday
\* times for up to three posts, the weekday and weekend times for more) has
\* that many.
C19_SampledWithoutReplacement ==
    Suggested =>
        \A p \in DOMAIN suggestions.result :
            LET times == suggestions.result[p]
            IN  /\ NoTimeTwice(times)
                /\ \A i \in DOMAIN times : times[i] \in RecommendedTimes(p)
                /\ Len(SampledTimes(p, suggestions.posts_per_week)) >= suggestions.posts_per_week
                      => Len(times) = suggestions.posts_per_week

\* C19, for the platforms of the table only: their lists have no time of day
\* twice
C19_TablePlatformsDistinct ==
    Suggested =>
        \A p \in DOMAIN suggestions.result \cap DOMAIN OPTIMAL_TIMES :
            NoTimeTwice(suggestions.result[p])

\* ================================================ PostScheduler: more properties
\* the entry of the list at a cursor position, whatever the size of the cursor
EntryAt(entry_ids, position) == entry_ids[(position % Len(entry_ids)) + 1]

\* C21: a run of a recurring job with the callback set and a non-empty list
\* invokes the callback once, with the entry under the cursor or, when that one
\* is in the posted-set, with the next entry of the rotation, posted or not;
\* and when the callback ends, whether it returned True or False or raised, the
\* cursor is one position past the entry that was passed to it.
C21_CursorPastPassedEntry ==
    /\ [][\A w \in DOMAIN threads : \A i \in DOMAIN jobs :
             (/\ rotating_job(w, i)
              /\ post_callback
              /\ fns[jobs[i].fn].entry_ids # <<>>) =>
                 LET entry_ids == fns[jobs[i].fn].entry_ids
                     entry_index == fns[jobs[i].fn].entry_index
                 IN  /\ threads'[w].pc = "call"
                     /\ threads'[w].cur = i
                     /\ threads'[w].arg =
                           IF EntryAt(entry_ids, entry_index) \in posted_content_ids
                           THEN EntryAt(entry_ids, entry_index + 1)
                           ELSE EntryAt(entry_ids, entry_index)
         ]_vars
    /\ [][\A w \in DOMAIN threads : \A outcome \in Outcomes :
             (Calling(w, "recurring") /\ post_callback_returns(w, outcome)) =>
                 LET f == jobs[threads[w].cur].fn
                     entry_ids == fns[f].entry_ids
                 IN  EntryAt(entry_ids, fns'[f].entry_index + Len(entry_ids) - 1)
                        = threads[w].arg
         ]_vars

\* C21, the part that holds: the callback is invoked once, with the entry under
\* the cursor after the single-step skip, and when it returns True or False the
\* cursor is one position past that entry
C21_CursorPastReturnedEntry ==
    [][\A w \in DOMAIN threads : \A outcome \in {"True", "False"} :
          (Calling(w, "recurring") /\ post_callback_returns(w, outcome)) =>
              LET f == jobs[threads[w].cur].fn
                  entry_ids == fns[f].entry_ids
              IN  EntryAt(entry_ids, fns'[f].entry_index + Len(entry_ids) - 1)
                     = threads[w].arg
      ]_vars

\* ------------------------------------------------ random posts: the windows
\* time windows with start <= end: one that starts on the hour, one that starts
\* at half past, one within a single hour
HalfPastNine == <<9, 30>>
QuarterPastTen == <<10, 15>>
QuarterToTen == <<9, 45>>

MinuteWindowLists ==
    { << Window(NineOClock, QuarterPastTen) >>,
      << Window(HalfPastNine, QuarterPastTen) >>,
      << Window(HalfPastNine, QuarterToTen) >> }

\* Windows: one schedule of random posts is set up, one post a week, for a
\* window of either sort.
NextWindows ==
    \E time_windows \in MinuteWindowLists :
        Room /\ schedule_random_posts(AllEntries, 1, time_windows)

SpecWindows == Init /\ [][NextWindows]_vars

\* minutes since midnight of a time of day
MinuteOfDay(t) == 60 * t[1] + t[2]

\* the time of day lies in the window, bounds included
InWindow(t, w) ==
    /\ MinuteOfDay(w.start) <= MinuteOfDay(t)
    /\ MinuteOfDay(t) <= MinuteOfDay(w.end)

\* the triggers a step has registered
Registered == { i \in DOMAIN jobs' : i \notin DOMAIN jobs }

\* C22: every trigger time schedule_random_posts chooses for a window (start,
\* end) with start <= end lies between start and end, bounds included, also
\* when the start minute is not 00.
C22_TimeInsideWindow ==
    [][\A time_windows \in MinuteWindowLists :
          schedule_random_posts(AllEntries, 1, time_windows) =>
              \A i \in Registered :
                  \E k \in DOMAIN time_windows : InWindow(jobs'[i].at, time_windows[k])
      ]_vars

\* C22, for the windows that start on the hour: the trigger time lies in the
\* window
C22_TimeInsideHourWindow ==
    [][\A time_windows \in MinuteWindowLists :
          (/\ schedule_random_posts(AllEntries, 1, time_windows)
           /\ \A k \in DOMAIN time_windows : time_windows[k].start[2] = 0) =>
              \A i \in Registered :
                  \E k \in DOMAIN time_windows : InWindow(jobs'[i].at, time_windows[k])
      ]_vars

\* a job function runs while no callback is set
RunsWithoutCallback ==
    /\ ~post_callback
    /\ \E w \in DOMAIN threads : \E i \in DOMAIN jobs :
          single_job(w, i) \/ rotating_job(w, i) \/ random_job(w, i)

\* C23: an ID enters the posted-set only when load_schedule_config restores it
\* from the file or when the callback it was passed to returns success (so
\* every ID of the set was restored or successfully posted since the set was
\* last cleared); a callback that returns False or raises, and a trigger that
\* fires with no callback set, add nothing.
C23_PostedOnlyOnSuccess ==
    [][/\ \/ posted_content_ids' \subseteq posted_content_ids
          \/ /\ load_schedule_config
             /\ file.exists
             /\ posted_content_ids' = Range(file.posted_content_ids)
          \/ \E w \in DOMAIN threads :
                /\ post_callback_returns(w, "True")
                /\ posted_content_ids' = posted_content_ids \cup {threads[w].arg}
       /\ \A w \in DOMAIN threads : \A outcome \in {"False", "raise"} :
             post_callback_returns(w, outcome) => posted_content_ids' = posted_content_ids
       /\ RunsWithoutCallback => posted_content_ids' = posted_content_ids
      ]_vars

\* C23 witness: a callback has failed and another has succeeded, and the ID
\* of the successful one, saved to the file, has just been restored by a load
C23_Witness ==
    /\ failed
    /\ posted_content_ids = {1}
    /\ file.exists
    /\ Range(file.posted_content_ids) = {1}
    /\ last = Returned("load_schedule_config", "True")
    /\ \E f \in DOMAIN trace : trace[f].succeeded

\* an entry ID leaves the posted-set in a step that does not empty the set the
\* way clear_all_jobs and the reset of random_job do
Removed(e) ==
    /\ e \in posted_content_ids
    /\ e \notin posted_content_ids'
    /\ ~clear_all_jobs
    /\ ~\E w \in DOMAIN threads : \E i \in DOMAIN jobs : random_job(w, i)

\* C24: an ID that a successful recurring post added stays in the posted-set
\* until the cooldown of its most recent successful post has elapsed: it is
\* removed by a deferred removal only, and never by one that an earlier post
\* armed while the removal of a later post of the same ID is still pending.
\* The removals of one recurring job all wait the same time, so they run in
\* the order in which they were armed.
C24_RemovalAfterLatestCooldown ==
    [][\A e \in EntryIds :
          Removed(e) => (timer_fires(e) /\ timers'[e] = 0)
      ]_vars

\* C24, the part that holds: an ID leaves the posted-set, other than by
\* emptying it, only when a deferred removal of that ID runs
C24_RemovalByTimerOnly ==
    [][\A e \in EntryIds : Removed(e) => timer_fires(e)]_vars

\* ------------------------------------------------ schedules, one after another
\* Tags: valid schedule_* calls of the three kinds are made one after the
\* other, with the same arguments or with others, up to MaxDescriptors
\* descriptors; no worker runs.
NextTags ==
    \/ \E entry_id \in EntryIds :
          /\ Len(scheduled_jobs) < MaxDescriptors
          /\ schedule_single_post(entry_id, ValidPostTime)
    \/ \E interval_days \in Intervals :
          /\ Len(scheduled_jobs) < MaxDescriptors
          /\ schedule_recurring_posts(AllEntries, interval_days, NineOClock)
    \/ /\ Len(scheduled_jobs) < MaxDescriptors
       /\ schedule_random_posts(AllEntries, 1, << Window(NineOClock, NineOClock) >>)

SpecTags == Init /\ [][NextTags]_vars

\* C25: no two descriptors of scheduled_jobs carry the same job_tag, whatever
\* schedule_single_post, schedule_recurring_posts and schedule_random_posts
\* calls were made, repeated ones with the same entry_id or interval_days
\* included.
C25_UniqueJobTags ==
    \A a, b \in DOMAIN scheduled_jobs :
        a # b => scheduled_jobs[a].job_tag # scheduled_jobs[b].job_tag

\* C25, for calls that differ in kind, entry_id or interval_days: descriptors
\* of single posts of different entries, of recurring posts of different
\* intervals and of different kinds carry different tags
C25_DistinctCallsDistinctTags ==
    \A a, b \in DOMAIN scheduled_jobs :
        (\/ scheduled_jobs[a].type # scheduled_jobs[b].type
         \/ /\ scheduled_jobs[a].type = "single" /\ scheduled_jobs[b].type = "single"
            /\ scheduled_jobs[a].entry_id # scheduled_jobs[b].entry_id
         \/ /\ scheduled_jobs[a].type = "recurring" /\ scheduled_jobs[b].type = "recurring"
            /\ scheduled_jobs[a].interval_days # scheduled_jobs[b].interval_days)
        => scheduled_jobs[a].job_tag # scheduled_jobs[b].job_tag

\* the tags of the live triggers, and the job_tags of the descriptors
TriggerTags == { jobs[i].tag : i \in LiveJobs }

DescriptorTags == { scheduled_jobs[k].job_tag : k \in DOMAIN scheduled_jobs }

\* C27: whatever schedule_single_post, schedule_recurring_posts,
\* schedule_random_posts, clear_jobs_by_tag and clear_all_jobs calls were
\* made, the job_tag of every descriptor is the tag of a live trigger and the
\* tag of every live trigger is the job_tag of a descriptor.
C27_DescriptorsMatchTriggers ==
    /\ DescriptorTags \subseteq TriggerTags
    /\ TriggerTags \subseteq DescriptorTags

\* C27, for single posts: a successful schedule_single_post call leaves a
\* live trigger and a descriptor that carry the same tag
C27_SingleDescriptorsMatch ==
    [][\A entry_id \in EntryIds :
          (schedule_single_post(entry_id, ValidPostTime) /\ last'.ret = "True") =>
              /\ Tag("single_post_", entry_id) \in DescriptorTags'
              /\ Tag("single_post_", entry_id) \in TriggerTags'
      ]_vars

\* a schedule_* call is made and returns False
ScheduleFails ==
    /\ \/ \E entry_id \in EntryIds, post_time \in PostTimes :
             schedule_single_post(entry_id, post_time)
       \/ \E entry_ids \in EntryLists, interval_days \in Intervals, start_time \in StartTimes :
             schedule_recurring_posts(entry_ids, interval_days, start_time)
       \/ \E entry_ids \in EntryLists, posts_per_week \in PostsPerWeek,
             time_windows \in WindowLists :
             schedule_random_posts(entry_ids, posts_per_week, time_windows)
    /\ last'.ret = "False"

\* C28: a schedule_single_post, schedule_recurring_posts or
\* schedule_random_posts call that returns False leaves the live triggers and
\* scheduled_jobs exactly as they were before the call.
C28_FailedCallChangesNothing ==
    [][ScheduleFails =>
          /\ { jobs'[i] : i \in LiveJobs' } = { jobs[i] : i \in LiveJobs }
          /\ Cardinality(LiveJobs') = Cardinality(LiveJobs)
          /\ scheduled_jobs' = scheduled_jobs
      ]_vars

\* C28, the part that holds: a failed call leaves scheduled_jobs as it was,
\* and a failed schedule_single_post or schedule_recurring_posts call leaves
\* the triggers as they were
C28_FailedCallKeepsDescriptors ==
    [][ScheduleFails =>
          /\ scheduled_jobs' = scheduled_jobs
          /\ (last'.op # "schedule_random_posts" => jobs' = jobs)
      ]_vars

\* C29: no trigger is being executed by two workers at once: two threads are
\* never both inside post_callback on behalf of the same due trigger
C29_NoDuplicateFiring ==
    \A w1, w2 \in DOMAIN threads :
        (w1 # w2 /\ threads[w1].pc = "call" /\ threads[w2].pc = "call")
            => threads[w1].cur # threads[w2].cur

\* C29, for one worker: while a single thread is alive, a trigger it is running
\* is in no other thread's hands
C29_OneWorkerFiresOnce ==
    Cardinality(Alive) <= 1 =>
        \A w1, w2 \in DOMAIN threads :
            (w1 # w2 /\ threads[w1].pc = "call") =>
                /\ threads[w2].pc # "call"
                /\ threads[w1].cur \notin threads[w2].todo

\* C30: every hashtag that enters the used-set during a format_for_platform
\* call was appended to the text the call returned, so that each member of the
\* used-set has appeared in a returned text; a hashtag selected and then dropped
\* by the character-limit check of the append step does not enter the used-set
C30_UsedWereAppended ==
    [][(used_hashtags' \ used_hashtags) \subseteq Range(call'.appended)]_vars

\* C30, without the limit: in a call that appended every hashtag it selected,
\* the hashtags that entered the used-set are among those appended
C30_UsedWereSelected ==
    [][call'.appended = call'.hashtags =>
          (used_hashtags' \ used_hashtags) \subseteq Range(call'.appended)]_vars

\* ========================================== ContentFormatter.create_thread
MaxSentences == 3

\* the character class [.!?]
SentenceEnd == {".", "!", "?"}

\* re.split(r'[.!?]+', content): the fragments between the runs of . ! ?, the
\* empty ones before a leading run and after a trailing run included
RECURSIVE re_split_sentences(_)
re_split_sentences(content) ==
    LET ends == { i \in DOMAIN content : content[i] \in SentenceEnd } IN
    IF ends = {}
    THEN << content >>
    ELSE LET first == Least(ends)
             after == { i \in first..Len(content) : content[i] \notin SentenceEnd }
             rest == IF after = {} THEN <<>> ELSE SubSeq(content, Least(after), Len(content))
         IN  << SubSeq(content, 1, first - 1) >> \o re_split_sentences(rest)

\* [s.strip() for s in sentences if s.strip()]
RECURSIVE Stripped(_)
Stripped(fragments) ==
    IF fragments = <<>> THEN <<>>
    ELSE IF strip(Head(fragments)) = <<>> THEN Stripped(Tail(fragments))
    ELSE << strip(Head(fragments)) >> \o Stripped(Tail(fragments))

\* the sentences of create_thread
Sentences(content) == Stripped(re_split_sentences(content))

\* sentences.index(sentence): the 0-based index of the first equal sentence
index(sentences, sentence) == Least({ i \in DOMAIN sentences : sentences[i] = sentence }) - 1

Digits == <<"0", "1", "2", "3", "4", "5", "6", "7", "8", "9">>

\* str(n) for n >= 0, as the f-string formats a counter
RECURSIVE Str(_)
Str(n) == IF n < 10 THEN << Digits[n + 1] >> ELSE Str(n \div 10) \o << Digits[(n % 10) + 1] >>

\* f"{current_thread} ({i}/{n})"
Labelled(current_thread, i, n) ==
    current_thread \o <<SP, "(">> \o Str(i) \o <<"/">> \o Str(n) \o <<")">>

\* sentence + ". "
Ended(sentence) == sentence \o <<".", SP>>

\* the buffer after a segment was closed: it starts with the sentence that did
\* not fit; a variant drops that sentence
NewBuffer_Empty(sentence) == <<>>

NewBuffer(sentence) == Ended(sentence)

\* the loop of create_thread from sentence number k on, and the last thread
RECURSIVE ThreadLoop(_, _, _, _, _, _)
ThreadLoop(sentences, k, threads_, current_thread, thread_count, limit) ==
    IF k > Len(sentences)
    THEN IF strip(current_thread) # <<>>
         THEN Append(threads_, Labelled(current_thread, thread_count, thread_count))
         ELSE threads_
    ELSE LET sentence == sentences[k]
             test_thread == current_thread \o Ended(sentence)
         IN  IF Len(test_thread) > limit
             THEN ThreadLoop(sentences, k + 1,
                             Append(threads_,
                                    Labelled(current_thread, thread_count,
                                             thread_count + Len(sentences)
                                                - index(sentences, sentence))),
                             NewBuffer(sentence), thread_count + 1, limit)
             ELSE ThreadLoop(sentences, k + 1, threads_, test_thread, thread_count, limit)

\* the list create_thread returns for twitter and x
Thread(title, content, platform) ==
    ThreadLoop(Sentences(content), 1, <<>>, title \o <<NL, NL>>, 1,
               PLATFORM_LIMITS[platform].text - 20)

\* create_thread(title, content, platform) on the formatter: for a platform
\* other than 'twitter' and 'x' it is one format_for_platform call
create_thread(title, content, platform) ==
    IF platform \notin {"twitter", "x"}
    THEN /\ Formatting(title, content, platform, <<>>, TRUE)
         /\ threaded' = [op |-> "create_thread", title |-> title, content |-> content,
                         platform |-> platform, result |-> << call'.text >>]
         /\ UNCHANGED << svars, sanitized, suggestions >>
    ELSE /\ \E result \in { Thread(title, content, platform) } :
               threaded' = [op |-> "create_thread", title |-> title, content |-> content,
                            platform |-> platform, result |-> result]
         /\ UNCHANGED << svars, used_hashtags, call, placed, sanitized, suggestions >>

\* ------------------------------------------------------ inputs of create_thread
\* the room of a twitter segment
ThreadLimit == PLATFORM_LIMITS["twitter"].text - 20

\* pieces of content: a short sentence, a sentence of half the room, a sentence
\* longer than the room, a blank fragment between runs of . ! ?, and words
\* with whitespace before them and no end
ThreadPieces ==
    { <<"a", ".">>,
      Repeat("b", ThreadLimit \div 2) \o <<"!">>,
      Repeat("c", ThreadLimit + 10) \o <<"?">>,
      <<".", SP, ".", ".">>,
      <<SP, "d", SP, "e">> }

RECURSIVE ThreadContents(_)
ThreadContents(n) ==
    IF n = 0 THEN { <<>> }
    ELSE ThreadContents(n - 1) \cup { s \o p : s \in ThreadContents(n - 1), p \in ThreadPieces }

\* titles: none, blank, short, longer than the room
ThreadTitles == { <<>>, <<SP>>, <<"T">>, Repeat("T", ThreadLimit + 1) }

\* Threads: on a new formatter, either a thread is made of a content of up to
\* MaxSentences pieces, for twitter or x, which depends on the arguments only;
\* or single posts are made for other platforms, one after the other.
NextThread ==
    \/ \E title \in ThreadTitles : \E content \in ThreadContents(MaxSentences) :
       \E platform \in {"twitter", "x"} :
          /\ threaded.op = "__init__"
          /\ create_thread(title, content, platform)
    \/ \E platform \in {"facebook", "Twitter"} :
          /\ threaded.platform \notin {"twitter", "x"}
          /\ MoreCalls
          /\ create_thread(<<"T">>, <<"a", ".">>, platform)

SpecThread == InitFormat /\ [][NextThread]_vars

\* ------------------------------------------------- properties of create_thread
\* create_thread was called for twitter or x
ThreadMade == threaded.op = "create_thread" /\ threaded.platform \in {"twitter", "x"}

\* the number a string of digits stands for
RECURSIVE Value(_)
Value(digits) ==
    IF digits = <<>> THEN 0
    ELSE 10 * Value(SubSeq(digits, 1, Len(digits) - 1))
            + (CHOOSE d \in 0..9 : Digits[d + 1] = digits[Len(digits)])

\* a segment ends with " (i/n)": the text before that suffix, i and n
SegmentBuffer(segment) == SubSeq(segment, 1, rfind(segment, "(") - 1)

SegmentCounter(segment) ==
    Value(SubSeq(segment, rfind(segment, "(") + 2, rfind(segment, "/")))

SegmentTotal(segment) ==
    Value(SubSeq(segment, rfind(segment, "/") + 2, Len(segment) - 1))

\* what a thread is made of, in order: the title with its blank line, then
\* every sentence of the content with ". " after it
ThreadParts(title, content) ==
    << title \o <<NL, NL>> >>
        \o [i \in 1..Len(Sentences(content)) |-> Ended(Sentences(content)[i])]

\* parts[a] parts[a+1] ... parts[b]
RECURSIVE Run(_, _, _)
Run(parts, a, b) == IF a > b THEN <<>> ELSE parts[a] \o Run(parts, a + 1, b)

\* the segments hold the parts from number `from` on: each segment holds one or
\* more whole parts, one after the other, and no part is left out or repeated
RECURSIVE Covers(_, _, _)
Covers(segments, parts, from) ==
    IF segments = <<>>
    THEN from = Len(parts) + 1
    ELSE \E to \in from..Len(parts) :
            /\ SegmentBuffer(Head(segments)) = Run(parts, from, to)
            /\ Covers(Tail(segments), parts, to + 1)

\* C26: for twitter and x, the segments create_thread returns hold the title and
\* every non-empty sentence of the content (split on . ! ?) once each, whole
\* and in their order; the counters of the segments are 1, 2, ..., k; the last
\* buffer is emitted as the last segment whenever it is not blank, labelled
\* (k/k) for k segments returned; a blank title without a sentence gives no
\* segment.
C26_ThreadKeepsContent ==
    ThreadMade =>
        LET segments == threaded.result
            parts == ThreadParts(threaded.title, threaded.content)
        IN  /\ IF strip(Run(parts, 1, Len(parts))) = <<>>
               THEN segments = <<>>
               ELSE Covers(segments, parts, 1)
            /\ \A j \in DOMAIN segments : SegmentCounter(segments[j]) = j
            /\ segments # <<>> => SegmentTotal(segments[Len(segments)]) = Len(segments)

\* C26 witness: a thread of several segments was made of a content with more
\* sentences than segments, so that a segment holds two sentences
C26_Witness ==
    /\ ThreadMade
    /\ Len(threaded.result) >= 2
    /\ Len(Sentences(threaded.content)) > Len(threaded.result)

====
